---- MODULE Spec2Model ----
(***************************************************************************)
(* Documentation discovery and TOC reconciliation of doc_forge              *)
(* (src/src/doc_forge/source_discovery.py, src/src/doc_forge/global_info.py)*)
(*                                                                         *)
(* Paths, file names and file contents are character strings; the string   *)
(* operations of the Python code (startswith, count, split, strip, lower,  *)
(* title, pathlib stem/suffix/parts) are computed character by character.  *)
(***************************************************************************)
EXTENDS Integers, Sequences, FiniteSets, TLC

(***************************************************************************)
(* str methods                                                             *)
(***************************************************************************)
\* the element of a one-element set; {e(x) : x \in {v}} computes v once,
\* however often e uses it
The(S) == CHOOSE r \in S : TRUE

Ch(s, i) == SubSeq(s, i, i)

StartsWith(s, p) == Len(p) <= Len(s) /\ SubSeq(s, 1, Len(p)) = p

EndsWith(s, p) == Len(p) <= Len(s) /\ SubSeq(s, Len(s) - Len(p) + 1, Len(s)) = p

\* s[i:] (i is 1-based here)
From(s, i) == SubSeq(s, i, Len(s))

\* least position >= i at which sub occurs in s, 0 when there is none (str.find)
FindFrom(s, sub, i) ==
    LET hits(t, p) == {k \in i..(Len(t) - Len(p) + 1) : SubSeq(t, k, k + Len(p) - 1) = p}
        least(h)   == IF h = {} THEN 0 ELSE CHOOSE k \in h : \A m \in h : k <= m
    IN  The({least(h) : h \in {hits(t, p) : t \in {s}, p \in {sub}}})

\* sub in s
Contains(s, sub) == FindFrom(s, sub, 1) # 0

\* greatest position at which ch occurs in s, 0 when there is none (str.rfind)
RECURSIVE RFind(_, _, _)
RFind(s, ch, i) ==
    IF i < 1 THEN 0
    ELSE IF Ch(s, i) = ch THEN i
    ELSE RFind(s, ch, i - 1)

\* s.count(sub): number of non-overlapping occurrences, scanning left to right
RECURSIVE CountFrom(_, _, _)
CountFrom(s, sub, i) ==
    LET j == FindFrom(s, sub, i)
    IN  IF Len(sub) = 0 \/ j = 0 THEN 0
        ELSE 1 + CountFrom(s, sub, j + Len(sub))

Count(s, sub) == CountFrom(s, sub, 1)

\* s.split(sep) for a one-character separator
RECURSIVE Split(_, _)
Split(s, sep) ==
    LET j == FindFrom(s, sep, 1)
    IN  IF j = 0 THEN <<s>>
        ELSE <<SubSeq(s, 1, j - 1)>> \o Split(From(s, j + 1), sep)

IsSpace(c) == c \in {" ", "\n", "\t", "\r"}

RECURSIVE LStrip(_)
LStrip(s) == IF Len(s) > 0 /\ IsSpace(Ch(s, 1)) THEN LStrip(From(s, 2)) ELSE s

RECURSIVE RStrip(_)
RStrip(s) ==
    IF Len(s) > 0 /\ IsSpace(Ch(s, Len(s))) THEN RStrip(SubSeq(s, 1, Len(s) - 1)) ELSE s

\* s.strip()
Strip(s) == RStrip(LStrip(s))

UpperLetters == "ABCDEFGHIJKLMNOPQRSTUVWXYZ"
LowerLetters == "abcdefghijklmnopqrstuvwxyz"

\* upper-case letter -> lower-case letter, and the converse
ToLower == [c \in {Ch(UpperLetters, i) : i \in 1..26} |->
              Ch(LowerLetters, FindFrom(UpperLetters, c, 1))]
ToUpper == [c \in {Ch(LowerLetters, i) : i \in 1..26} |->
              Ch(UpperLetters, FindFrom(LowerLetters, c, 1))]

IsLetter(c) == c \in DOMAIN ToLower \/ c \in DOMAIN ToUpper

LowerCh(c) == IF c \in DOMAIN ToLower THEN ToLower[c] ELSE c

UpperCh(c) == IF c \in DOMAIN ToUpper THEN ToUpper[c] ELSE c

\* s.lower(), one half of s after the other
RECURSIVE Lower(_)
Lower(s) ==
    LET halves(t) == Lower(SubSeq(t, 1, Len(t) \div 2))
                         \o Lower(SubSeq(t, Len(t) \div 2 + 1, Len(t)))
    IN  The({IF Len(t) <= 1 THEN LowerCh(t) ELSE halves(t) : t \in {s}})

\* s.title(): a letter that follows a non-letter is upper-cased, every other
\* letter is lower-cased
RECURSIVE TitleFrom(_, _)
TitleFrom(s, afterLetter) ==
    IF Len(s) = 0 THEN ""
    ELSE LET c == Ch(s, 1)
         IN  (IF afterLetter THEN LowerCh(c) ELSE UpperCh(c))
                 \o TitleFrom(From(s, 2), IsLetter(c))

Title(s) == TitleFrom(s, FALSE)

\* s.replace(a, b) for a one-character a
RECURSIVE Replace(_, _, _)
Replace(s, a, b) ==
    IF Len(s) = 0 THEN ""
    ELSE (IF Ch(s, 1) = a THEN b ELSE Ch(s, 1)) \o Replace(From(s, 2), a, b)

(***************************************************************************)
(* pathlib.Path (absolute POSIX paths, written without a trailing slash)   *)
(***************************************************************************)
\* path / name
Join(path, name) == path \o "/" \o name

\* path.parts: the root "/" followed by the components
Parts(path) == <<"/">> \o Tail(Split(path, "/"))

\* path.name
Name(path) == From(path, RFind(path, "/", Len(path)) + 1)

\* path.suffix: from the last dot of the name, unless the dot leads or ends it
Suffix(path) ==
    LET n == Name(path)
        i == RFind(n, ".", Len(n))
    IN  IF i > 1 /\ i < Len(n) THEN From(n, i) ELSE ""

\* path.stem
Stem(path) ==
    LET n == Name(path)
    IN  SubSeq(n, 1, Len(n) - Len(Suffix(path)))

\* path.with_suffix(suffix)
WithSuffix(path, suffix) ==
    SubSeq(path, 1, Len(path) - Len(Suffix(path))) \o suffix

\* str(path.relative_to(base)), path being below base
RelativeTo(path, base) == From(path, Len(base) + 2)

\* base is path or an ancestor directory of path
IsUnder(path, base) == path = base \/ StartsWith(path, base \o "/")

\* any(p.startswith("_") for p in path.parts)
HasUnderscorePart(path) ==
    LET parts == Parts(path)
    IN  \E i \in 1..Len(parts) : StartsWith(parts[i], "_")

(***************************************************************************)
(* global_info.py                                                          *)
(***************************************************************************)
DOC_STRUCTURE ==
    [root |-> "docs", build |-> "_build", static |-> "_static",
     templates |-> "_templates", user_docs |-> "user_docs",
     auto_docs |-> "auto_docs", ai_docs |-> "ai_docs", assets |-> "assets"]

DOC_CATEGORIES ==
    [user_docs |-> <<"getting_started", "guides", "concepts", "reference",
                     "examples", "faq">>,
     auto_docs |-> <<"api", "introspected", "extracted">>,
     ai_docs   |-> <<"generated", "enhanced", "integrated">>]

\* the dictionary that holds the entries of the dictionaries f[1], ..., f[n]
RECURSIVE MergeAll(_)
MergeAll(f) == IF f = <<>> THEN [k \in {} |-> ""] ELSE f[1] @@ MergeAll(Tail(f))

\* get_doc_structure(repo_root): structure key -> absolute path
get_doc_structure(root) ==
    LET docs  == Join(root, DOC_STRUCTURE.root)
        base  == [k \in DOMAIN DOC_STRUCTURE |->
                    IF k = "root" THEN docs ELSE Join(docs, DOC_STRUCTURE[k])]
        secs(c) == [i \in 1..Len(DOC_CATEGORIES[c]) |->
                      (c \o "_" \o DOC_CATEGORIES[c][i])
                          :> Join(Join(docs, DOC_STRUCTURE[c]), DOC_CATEGORIES[c][i])]
    IN  MergeAll(secs("user_docs")) @@ MergeAll(secs("auto_docs"))
            @@ MergeAll(secs("ai_docs")) @@ base

(***************************************************************************)
(* The file tree: the regular files in the order in which the directory    *)
(* traversal of glob and os.listdir meets them; a directory exists when a  *)
(* file lies below it.                                                     *)
(***************************************************************************)
\* path.exists()
Exists(t, path) == \E i \in 1..Len(t) : IsUnder(t[i].path, path)

\* path.is_file()
IsFile(t, path) == \E i \in 1..Len(t) : t[i].path = path

\* path.is_dir()
IsDir(t, path) == \E i \in 1..Len(t) : StartsWith(t[i].path, path \o "/")

FileAt(t, path) == t[CHOOSE i \in 1..Len(t) : t[i].path = path]

\* open(path).read() succeeds
CanRead(t, path) == IsFile(t, path) /\ FileAt(t, path).readable

\* the paths of a sequence of files
RECURSIVE PathsOf(_)
PathsOf(t) == IF t = <<>> THEN <<>> ELSE <<t[1].path>> \o PathsOf(Tail(t))

\* dir.glob("**/*" + ext)
Glob(t, dir, ext) ==
    LET match(f) == StartsWith(f.path, dir \o "/") /\ EndsWith(Name(f.path), ext)
    IN  PathsOf(SelectSeq(t, match))

\* os.listdir(dir): the names of the entries of dir, each once
RECURSIVE ListDir(_, _)
ListDir(t, dir) ==
    IF t = <<>> THEN <<>>
    ELSE LET rest == ListDir(SubSeq(t, 1, Len(t) - 1), dir)
             p    == t[Len(t)].path
             n    == Split(RelativeTo(p, dir), "/")[1]
         IN  IF StartsWith(p, dir \o "/") /\ ~ \E i \in 1..Len(rest) : rest[i] = n
             THEN Append(rest, n) ELSE rest

\* the concatenation of the sequences f[1], ..., f[n]
RECURSIVE Flatten(_)
Flatten(f) == IF f = <<>> THEN <<>> ELSE f[1] \o Flatten(Tail(f))

(***************************************************************************)
(* Regular-expression scans of source_discovery.py                         *)
(***************************************************************************)
\* the character U+0060, which a string literal cannot hold
Backtick == SubSeq("`'", 1, 1)

NoNewline(s, i, j) == ~ Contains(SubSeq(s, i, j), "\n")

\* end of the line that holds position i: the position of the next "\n",
\* or Len(s) + 1
LineEnd(s, i) ==
    LET j == FindFrom(s, "\n", i) IN IF j = 0 THEN Len(s) + 1 ELSE j

\* the groups of re.finditer(open (.*?) close, s) for literal open and close
RECURSIVE Delimited(_, _, _, _)
Delimited(s, open, close, i) ==
    LET a == FindFrom(s, open, i)
        b == a + Len(open)
        k == FindFrom(s, close, b)
    IN  IF a = 0 THEN <<>>
        ELSE IF k # 0 /\ NoNewline(s, b, k - 1)
             THEN <<SubSeq(s, b, k - 1)>> \o Delimited(s, open, close, k + Len(close))
             ELSE Delimited(s, open, close, a + 1)

\* the groups of re.finditer(r'\[.*?\]\((.*?)\)', s)
RECURSIVE MdLinks(_, _)
MdLinks(s, i) ==
    LET a == FindFrom(s, "[", i)
        j == FindFrom(s, "](", a + 1)
        k == FindFrom(s, ")", j + 2)
    IN  IF a = 0 THEN <<>>
        ELSE IF j # 0 /\ k # 0 /\ NoNewline(s, a + 1, k - 1)
             THEN <<SubSeq(s, j + 2, k - 1)>> \o MdLinks(s, k + 1)
             ELSE MdLinks(s, a + 1)

\* the match of the RST hyperlink pattern (backtick, [^backtick]*?, "<", (.*?),
\* ">", backtick, "_") that starts at the backtick at a, trying the "<" at or
\* after j: <<group, end of the match>>, or <<>> when none
RECURSIVE RstHyperlinkAt(_, _, _)
RstHyperlinkAt(s, a, j) ==
    LET lt == FindFrom(s, "<", j)
        k  == FindFrom(s, ">" \o Backtick \o "_", lt + 1)
    IN  IF lt = 0 \/ Contains(SubSeq(s, a + 1, lt - 1), Backtick) THEN <<>>
        ELSE IF k # 0 /\ NoNewline(s, lt + 1, k - 1)
             THEN <<SubSeq(s, lt + 1, k - 1), k + 2>>
             ELSE RstHyperlinkAt(s, a, lt + 1)

\* the groups of re.finditer over the RST hyperlink pattern
RECURSIVE RstHyperlinks(_, _)
RstHyperlinks(s, i) ==
    LET a == FindFrom(s, Backtick, i)
        m == RstHyperlinkAt(s, a, a + 1)
    IN  IF a = 0 THEN <<>>
        ELSE IF m # <<>> THEN <<m[1]>> \o RstHyperlinks(s, m[2] + 1)
             ELSE RstHyperlinks(s, a + 1)

\* the groups of re.finditer(r'\.\. include:: (.*?)$', s, re.MULTILINE)
RECURSIVE RstIncludes(_, _)
RstIncludes(s, i) ==
    LET a == FindFrom(s, ".. include:: ", i)
        b == a + 13
        e == LineEnd(s, b)
    IN  IF a = 0 THEN <<>>
        ELSE <<SubSeq(s, b, e - 1)>> \o RstIncludes(s, e)

\* the first position >= i of s that holds no blank
RECURSIVE SkipBlanks(_, _)
SkipBlanks(s, i) == IF i <= Len(s) /\ Ch(s, i) = " " THEN SkipBlanks(s, i + 1) ELSE i

\* the match of r'\{\{ *include\("(.*?)"\) *\}\}' whose group starts at b,
\* trying the closing quote at or after j
RECURSIVE CallIncludeAt(_, _, _)
CallIncludeAt(s, b, j) ==
    LET k == FindFrom(s, "\")", j)
        e == SkipBlanks(s, k + 2)
    IN  IF k = 0 \/ ~ NoNewline(s, b, k - 1) THEN <<>>
        ELSE IF SubSeq(s, e, e + 1) = "}}" THEN <<SubSeq(s, b, k - 1), e + 1>>
             ELSE CallIncludeAt(s, b, k + 1)

\* the groups of re.finditer(r'\{\{ *include\("(.*?)"\) *\}\}', s)
RECURSIVE CallIncludes(_, _)
CallIncludes(s, i) ==
    LET a == FindFrom(s, "{{", i)
        c == SkipBlanks(s, a + 2)
        m == IF SubSeq(s, c, c + 8) = "include(\"" THEN CallIncludeAt(s, c + 9, c + 9)
             ELSE <<>>
    IN  IF a = 0 THEN <<>>
        ELSE IF m # <<>> THEN <<m[1]>> \o CallIncludes(s, m[2] + 1)
             ELSE CallIncludes(s, a + 1)

\* link.startswith(prefixes)
StartsWithAny(s, prefixes) == \E p \in prefixes : StartsWith(s, p)

\* re.sub(r'#.*$', '', link), link holding no newline
StripAnchor(link) ==
    LET i == FindFrom(link, "#", 1) IN IF i = 0 THEN link ELSE SubSeq(link, 1, i - 1)

\* re.sub(r'\.(md|rst)$', '', link)
StripDocExt(link) ==
    IF EndsWith(link, ".md") THEN SubSeq(link, 1, Len(link) - 3)
    ELSE IF EndsWith(link, ".rst") THEN SubSeq(link, 1, Len(link) - 4)
    ELSE link

\* re.match(r'^[=\-]+$', line) for a line of content.split('\n')
IsUnderline(line) ==
    Len(line) > 0 /\ \A i \in 1..Len(line) : Ch(line, i) \in {"=", "-"}

Range(f) == {f[i] : i \in 1..Len(f)}

(***************************************************************************)
(* class DocumentMetadata                                                  *)
(***************************************************************************)
\* the fallback title without replace("_", " ").title()
FilenameTitle_Stem(path) == Stem(path)

\* path.stem.replace("_", " ").title()
FilenameTitle(path) == Title(Replace(Stem(path), "_", " "))

\* start of the first match of r'^#\s+' (re.MULTILINE) at or after i, or 0
RECURSIVE MdHeadingAt(_, _)
MdHeadingAt(s, i) ==
    LET a == FindFrom(s, "#", i)
    IN  IF a = 0 THEN 0
        ELSE IF (a = 1 \/ Ch(s, a - 1) = "\n") /\ a < Len(s) /\ IsSpace(Ch(s, a + 1))
             THEN a
             ELSE MdHeadingAt(s, a + 1)

\* the first position >= i of s that holds no white space
RECURSIVE SkipSpace(_, _)
SkipSpace(s, i) == IF i <= Len(s) /\ IsSpace(Ch(s, i)) THEN SkipSpace(s, i + 1) ELSE i

\* _extract_markdown_metadata, the title: re.search(r'^#\s+(.*?)$', content,
\* re.MULTILINE), group(1).strip()
extract_markdown_title(content, title) ==
    LET a == MdHeadingAt(content, 1)
        b == SkipSpace(content, a + 1)
    IN  IF a = 0 THEN title
        ELSE Strip(SubSeq(content, b, LineEnd(content, b) - 1))

\* _extract_markdown_metadata, the references
extract_markdown_references(content) ==
    LET links == {Strip(g) : g \in Range(MdLinks(content, 1))}
    IN  {StripDocExt(StripAnchor(l)) :
            l \in {x \in links : ~ StartsWithAny(x, {"http:", "https:", "#", "mailto:"})}}

\* _extract_rst_metadata, the title: the first line, neither the first nor
\* the last of the file, that an underline of its own stripped length follows
extract_rst_title(content, title) ==
    LET lines == Split(content, "\n")
        hit(k) == /\ IsUnderline(lines[k + 1])
                  /\ Len(lines[k]) > 0
                  /\ Len(Strip(lines[k])) = Len(Strip(lines[k + 1]))
        hits  == {k \in 2..(Len(lines) - 1) : hit(k)}
    IN  IF hits = {} THEN title
        ELSE Strip(lines[CHOOSE k \in hits : \A m \in hits : k <= m])

\* _extract_rst_metadata, the references
extract_rst_references(content) ==
    LET docs   == {Strip(g) : g \in Range(Delimited(content, ":doc:" \o Backtick, Backtick, 1))}
        hyper  == {Strip(g) : g \in Range(RstHyperlinks(content, 1))}
    IN  docs \cup {l \in hyper : ~ StartsWithAny(l, {"http:", "https:", "#", "mailto:"})}

\* _extract_common_references
extract_common_references(content) ==
    LET found == Range(RstIncludes(content, 1))
                   \cup Range(Delimited(content, "{% include \"", "\" %}", 1))
                   \cup Range(CallIncludes(content, 1))
    IN  {l \in {Strip(g) : g \in found} : ~ StartsWithAny(l, {"http:", "https:", "#"})}

\* DocumentMetadata(path, category=..., section=..., priority=...) with
\* _extract_metadata: a file that cannot be read keeps the constructor's fields
DocumentMetadata(t, path, category, section, priority) ==
    LET ok      == CanRead(t, path)
        content == IF ok THEN FileAt(t, path).content ELSE ""
        sfx     == Suffix(path)
        dflt    == FilenameTitle(path)
    IN  [path       |-> path,
         title      |-> IF ~ ok THEN dflt
                        ELSE IF sfx = ".md" THEN extract_markdown_title(content, dflt)
                        ELSE IF sfx = ".rst" THEN extract_rst_title(content, dflt)
                        ELSE dflt,
         category   |-> category,
         section    |-> section,
         priority   |-> priority,
         url        |-> WithSuffix(path, ".html"),
         references |-> IF ~ ok THEN {}
                        ELSE (IF sfx = ".md" THEN extract_markdown_references(content)
                              ELSE IF sfx = ".rst" THEN extract_rst_references(content)
                              ELSE {})
                             \cup extract_common_references(content),
         is_index   |-> Lower(Stem(path)) = "index"]

(***************************************************************************)
(* class DocumentationDiscovery: the state of one instance, the file tree  *)
(* it scans, and the structure its last generate_toc_structure returned    *)
(***************************************************************************)
VARIABLES
    tree,                \* the files on disk, in traversal order
    repo_root,           \* self.repo_root
    docs_dir,            \* self.docs_dir
    doc_structure,       \* self.doc_structure
    documents,           \* self.documents: category -> list of DocumentMetadata
    orphaned_documents,  \* self.orphaned_documents: list of paths
    tracked_documents,   \* self.tracked_documents: set of urls
    file_content_cache,  \* self._file_content_cache: path -> content
    toc,                 \* the structure returned by the last generate_toc_structure
    analysed,            \* the orphan analyses of the last generate_toc_structure
    metadata,            \* the DocumentMetadata constructed last, outside discovery
    pc,                  \* where the instance stands in discover -> generate
    last,                \* what the last discover_all found, and in which tree
    workflow,            \* run.py: where cmd_all stands, the steps and commands it ran
    analyzer,            \* doc_toc_analyzer.py: the TocAnalyzer and the result of analyze_toc
    fixer,               \* autoapi_fixer.py: the AutoAPIFixer
    manager,             \* update_toctrees.py: the TocTreeManager
    resolver,            \* add_noindex.py, fix_docstrings.py: the resolver run last
    command              \* test_command.py: the TestCommand and its analyzer

\* the state of the documentation discovery
discovery == <<tree, repo_root, docs_dir, doc_structure, documents, orphaned_documents,
               tracked_documents, file_content_cache, toc, analysed, metadata, pc, last>>

\* the state of the other tools of the package
tools == <<workflow, analyzer, fixer, manager, resolver, command>>

vars == <<tree, repo_root, docs_dir, doc_structure, documents, orphaned_documents,
          tracked_documents, file_content_cache, toc, analysed, metadata, pc, last,
          workflow, analyzer, fixer, manager, resolver, command>>

\* a tool that has not been started
NotStarted == [pc |-> "idle"]

ToolsIdle ==
    /\ workflow = NotStarted
    /\ analyzer = NotStarted
    /\ fixer = NotStarted
    /\ manager = NotStarted
    /\ resolver = NotStarted
    /\ command = NotStarted

Max(a, b) == IF a >= b THEN a ELSE b
Min(a, b) == IF a <= b THEN a ELSE b

\* self.doc_extensions
doc_extensions == <<".md", ".rst", ".txt">>

NoDocuments == [user |-> <<>>, auto |-> <<>>, ai |-> <<>>]

EmptyCache == [k \in {} |-> ""]

\* the attributes of the instance that discovery and TOC assembly change
Self ==
    [documents          |-> documents,
     orphaned_documents |-> orphaned_documents,
     tracked_documents  |-> tracked_documents,
     file_content_cache |-> file_content_cache]

\* _clear_discovery_state without self.tracked_documents.clear()
clear_keeps_tracked(st) ==
    [st EXCEPT !.documents = NoDocuments, !.orphaned_documents = <<>>,
               !.file_content_cache = EmptyCache]

\* _clear_discovery_state without self.documents.clear()
clear_keeps_documents(st) ==
    [st EXCEPT !.orphaned_documents = <<>>, !.tracked_documents = {},
               !.file_content_cache = EmptyCache]

\* _clear_discovery_state
clear_discovery_state(st) ==
    [documents          |-> NoDocuments,
     orphaned_documents |-> <<>>,
     tracked_documents  |-> {},
     file_content_cache |-> EmptyCache]

\* _calculate_doc_priority
calculate_doc_priority(file_path, section, category) ==
    LET base    == CASE category = "user" -> 40
                     [] category = "ai"   -> 60
                     [] category = "auto" -> 80
                     [] OTHER             -> 50
        boosted == base - (IF section \in {"getting_started", "guides", "overview"}
                           THEN 10 ELSE 0)
        stem    == Lower(Stem(file_path))
        indexed == boosted - (IF stem = "index" THEN 20 ELSE 0)
        readme  == indexed - (IF stem = "readme" THEN 15 ELSE 0)
        depth_penalty == Len(Parts(file_path)) - Len(Parts(docs_dir)) - 1
    IN  Max(0, Min(100, readme + depth_penalty * 2))

\* the records of one section directory: for each extension, the files of
\* section_dir.glob("**/*" + ext) that have no underscore-prefixed part
SectionDocs(section_dir, section, category) ==
    LET keep(path) == ~ HasUnderscorePart(path)
        docs(ext)  == LET found == SelectSeq(Glob(tree, section_dir, ext), keep)
                      IN  [i \in 1..Len(found) |->
                             DocumentMetadata(tree, found[i], category, section,
                                 calculate_doc_priority(found[i], section, category))]
    IN  Flatten([e \in 1..Len(doc_extensions) |-> docs(doc_extensions[e])])

\* the loop of _discover_user_docs if DocumentMetadata let the exception of
\* an unreadable file escape: the try around the loop ends it at that file
CategoryDocs_Aborting(category_dir, category) ==
    LET names == ListDir(tree, category_dir)
        all   == Flatten([n \in 1..Len(names) |->
                    IF IsDir(tree, Join(category_dir, names[n]))
                    THEN SectionDocs(Join(category_dir, names[n]), names[n], category)
                    ELSE <<>>])
        bad   == {i \in 1..Len(all) : ~ CanRead(tree, all[i].path)}
    IN  IF bad = {} THEN all
        ELSE SubSeq(all, 1, (CHOOSE i \in bad : \A j \in bad : i <= j) - 1)

\* the records of the section subdirectories of a category root, in
\* os.listdir order
CategoryDocs(category_dir, category) ==
    LET names == ListDir(tree, category_dir)
    IN  Flatten([n \in 1..Len(names) |->
                   IF IsDir(tree, Join(category_dir, names[n]))
                   THEN SectionDocs(Join(category_dir, names[n]), names[n], category)
                   ELSE <<>>])

\* _discover_user_docs
discover_user_docs(st) ==
    LET user_docs_dir == doc_structure["user_docs"]
    IN  IF ~ Exists(tree, user_docs_dir) THEN st
        ELSE [st EXCEPT !.documents.user = @ \o CategoryDocs(user_docs_dir, "user")]

\* _discover_auto_docs
discover_auto_docs(st) ==
    LET auto_docs_dir == doc_structure["auto_docs"]
        autodoc_dirs  == <<Join(auto_docs_dir, "api"),
                           Join(auto_docs_dir, "introspected"),
                           Join(auto_docs_dir, "extracted"),
                           Join(docs_dir, "autoapi"),
                           Join(docs_dir, "apidoc"),
                           Join(docs_dir, "reference")>>
    IN  [st EXCEPT !.documents.auto = @ \o
            Flatten([d \in 1..Len(autodoc_dirs) |->
                       IF Exists(tree, autodoc_dirs[d])
                       THEN SectionDocs(autodoc_dirs[d], Name(autodoc_dirs[d]), "auto")
                       ELSE <<>>])]

\* _discover_ai_docs
discover_ai_docs(st) ==
    LET ai_docs_dir == doc_structure["ai_docs"]
    IN  IF ~ Exists(tree, ai_docs_dir) THEN st
        ELSE [st EXCEPT !.documents.ai = @ \o CategoryDocs(ai_docs_dir, "ai")]

\* _identify_orphans
identify_orphans(st) ==
    LET all_docs == Flatten([e \in 1..Len(doc_extensions) |->
                               Glob(tree, docs_dir, doc_extensions[e])])
        structure_dirs == {p \in {doc_structure[k] : k \in DOMAIN doc_structure} :
                             Exists(tree, p)}
        ignored_dirs == {Join(docs_dir, "_build"), Join(docs_dir, "_static"),
                         Join(docs_dir, "_templates"), Join(docs_dir, "venv"),
                         Join(docs_dir, ".venv")}
        in_structure(file_path) == \E dir_path \in structure_dirs :
                                       StartsWith(file_path, dir_path)
        already_tracked(file_path) ==
            WithSuffix(file_path, ".html") \in st.tracked_documents
        orphan(file_path) ==
            /\ ~ HasUnderscorePart(file_path)
            /\ ~ \E ignored \in ignored_dirs : StartsWith(file_path, ignored)
            /\ ~ in_structure(file_path)
            /\ ~ already_tracked(file_path)
    IN  [st EXCEPT !.orphaned_documents = @ \o SelectSeq(all_docs, orphan)]

\* discover_all (_resolve_document_relations changes nothing)
discover_all(st) ==
    identify_orphans(discover_ai_docs(discover_auto_docs(discover_user_docs(
        clear_discovery_state(st)))))

(***************************************************************************)
(* generate_toc_structure                                                  *)
(***************************************************************************)
\* the keys of the structure generate_toc_structure initialises, in order
TocSections ==
    <<"getting_started", "user_guide", "concepts", "reference", "examples", "advanced">>

EmptyToc == [k \in Range(TocSections) |-> <<>>]

section_mapping ==
    [getting_started |-> "getting_started", installation |-> "getting_started",
     quickstart |-> "getting_started", guides |-> "user_guide",
     howto |-> "user_guide", tutorials |-> "user_guide",
     concepts |-> "concepts", architecture |-> "concepts", design |-> "concepts",
     reference |-> "reference", api |-> "reference", examples |-> "examples",
     demos |-> "examples", advanced |-> "advanced", internals |-> "advanced",
     contributing |-> "advanced", faq |-> "user_guide"]

\* section_mapping.get(doc.section, "reference"), without lower()
TargetSection_CaseSensitive(doc) ==
    IF doc.section \in DOMAIN section_mapping THEN section_mapping[doc.section]
    ELSE "reference"

\* section_mapping.get(doc.section.lower(), "reference")
TargetSection(doc) ==
    LET k == Lower(doc.section)
    IN  IF k \in DOMAIN section_mapping THEN section_mapping[k] ELSE "reference"

\* section_patterns of _place_orphaned_documents, in dictionary order
section_patterns ==
    <<[section |-> "getting_started",
       patterns |-> <<"installation", "quickstart", "setup", "introduction",
                      "overview", "begin">>],
      [section |-> "user_guide",
       patterns |-> <<"guide", "how to", "usage", "tutorial", "workflow", "manual",
                      "instructions">>],
      [section |-> "concepts",
       patterns |-> <<"concept", "architecture", "design", "principles", "theory",
                      "philosophy", "model">>],
      [section |-> "reference",
       patterns |-> <<"api", "reference", "class", "function", "method", "parameter",
                      "attribute">>],
      [section |-> "examples",
       patterns |-> <<"example", "sample", "demo", "showcase", "illustration",
                      "walkthrough">>],
      [section |-> "advanced",
       patterns |-> <<"advanced", "expert", "internals", "deep dive", "contribute",
                      "extend", "customize">>]>>

\* _analyze_orphan_content without its filename stage
FilenameStage_Skipped(filename_lower, best, i) == best

\* the filename stage of _analyze_orphan_content over section_patterns[i..]
RECURSIVE FilenameStage(_, _, _)
FilenameStage(filename_lower, best, i) ==
    IF i > Len(section_patterns) THEN best
    ELSE LET sp  == section_patterns[i]
             hit == \E p \in Range(sp.patterns) : Contains(filename_lower, p)
         IN  FilenameStage(filename_lower,
                 IF hit /\ (best.section = "reference" \/ best.score < 2)
                 THEN [section |-> sp.section, score |-> 2] ELSE best,
                 i + 1)

RECURSIVE SumSeq(_)
SumSeq(f) == IF f = <<>> THEN 0 ELSE f[1] + SumSeq(Tail(f))

\* sum(content.count(pattern) * (3 if pattern in content[:500] else 1) ...)
SectionScore(content, patterns) ==
    LET score(c, head) ==
            SumSeq([k \in 1..Len(patterns) |->
                      Count(c, patterns[k])
                          * (IF Contains(head, patterns[k]) THEN 3 ELSE 1)])
    IN  The({score(c, head) :
                c \in {content}, head \in {SubSeq(content, 1, Min(500, Len(content)))}})

\* the content stage with "section_score >= best_score": the last of the
\* sections with the highest score wins
RECURSIVE ContentStage_LastWins(_, _, _)
ContentStage_LastWins(content, best, i) ==
    IF i > Len(section_patterns) THEN best
    ELSE LET sp    == section_patterns[i]
             score == SectionScore(content, sp.patterns)
         IN  ContentStage_LastWins(content,
                 IF score >= best.score THEN [section |-> sp.section, score |-> score]
                 ELSE best,
                 i + 1)

\* the content stage of _analyze_orphan_content over section_patterns[i..]
RECURSIVE ContentStage(_, _, _)
ContentStage(content, best, i) ==
    IF i > Len(section_patterns) THEN best
    ELSE LET sp    == section_patterns[i]
             score == SectionScore(content, sp.patterns)
         IN  ContentStage(content,
                 IF score > best.score THEN [section |-> sp.section, score |-> score]
                 ELSE best,
                 i + 1)

\* the title search of _analyze_orphan_content in a Markdown content
OrphanMdTitle(content, title) ==
    LET lines == Split(content, "\n")
        hits  == {k \in 1..Len(lines) : StartsWith(lines[k], "# ")}
    IN  IF hits = {} THEN title
        ELSE Strip(From(lines[CHOOSE k \in hits : \A m \in hits : k <= m], 3))

\* the title search of _analyze_orphan_content in an RST content
OrphanRstTitle(content, title) ==
    LET lines == Split(content, "\n")
        hit(k) == /\ IsUnderline(lines[k + 1])
                  /\ Strip(lines[k]) # ""
                  /\ 10 * Len(Strip(lines[k])) >= 8 * Len(Strip(lines[k + 1]))
        hits  == {k \in 2..(Len(lines) - 1) : hit(k)}
    IN  IF hits = {} THEN title
        ELSE Strip(lines[CHOOSE k \in hits : \A m \in hits : k <= m])

\* the score of every section of section_patterns for a lower-cased content
SectionScores(content) ==
    [i \in 1..Len(section_patterns) |-> SectionScore(content, section_patterns[i].patterns)]

\* _analyze_orphan_content: the section, the title and the cache afterwards.
\* content_key is bound only when the content stage is entered; without it
\* the title search raises and the filename title stays.  entered tells
\* whether the content stage was entered, opens counts the calls of open()
\* on the orphan, and scores holds the section scores of the content stage
\* (empty when no content was scored).
analyze_orphan_content(orphan, cache) ==
    LET title0     == FilenameTitle(orphan)
        byName     == FilenameStage(Lower(Stem(orphan)),
                                    [section |-> "reference", score |-> 0], 1)
        entered    == byName.score < 2
        cached     == orphan \in DOMAIN cache
        readable   == CanRead(tree, orphan)
        scanned    == entered /\ (cached \/ readable)
        lowered    == IF cached THEN Lower(cache[orphan])
                      ELSE Lower(FileAt(tree, orphan).content)
        cache1     == IF entered /\ ~ cached /\ readable
                      THEN (orphan :> lowered) @@ cache ELSE cache
        best       == IF scanned THEN ContentStage(lowered, byName, 1) ELSE byName
        titled     == entered /\ (orphan \in DOMAIN cache1 \/ readable)
        cache2     == IF entered /\ orphan \notin DOMAIN cache1 /\ readable
                      THEN (orphan :> FileAt(tree, orphan).content) @@ cache1
                      ELSE cache1
        content    == cache2[orphan]
        title      == IF ~ titled THEN title0
                      ELSE IF Suffix(orphan) = ".md" THEN OrphanMdTitle(content, title0)
                      ELSE IF Suffix(orphan) = ".rst" THEN OrphanRstTitle(content, title0)
                      ELSE title0
        opens      == (IF entered /\ ~ cached THEN 1 ELSE 0)
                      + (IF entered /\ orphan \notin DOMAIN cache1 THEN 1 ELSE 0)
    IN  [section |-> best.section, title |-> title, cache |-> cache2,
         entered |-> entered, opens |-> opens,
         scores  |-> IF scanned THEN SectionScores(lowered) ELSE <<>>]

\* re.sub(r'\.(md|rst|txt)$', '.html', url)
HtmlUrl(url) ==
    IF EndsWith(url, ".md") THEN SubSeq(url, 1, Len(url) - 3) \o ".html"
    ELSE IF EndsWith(url, ".rst") \/ EndsWith(url, ".txt")
         THEN SubSeq(url, 1, Len(url) - 4) \o ".html"
    ELSE url

\* the priority _place_orphaned_documents gives every orphan item
OrphanPriority == 90

\* an orphan item without its "priority" key, which the sort reads as 50
orphan_item_default_priority(title, url) ==
    [title |-> title, url |-> url, priority |-> 50, category |-> "orphan"]

\* the item _place_orphaned_documents appends for an orphan
orphan_item(title, url) ==
    [title |-> title, url |-> url, priority |-> OrphanPriority, category |-> "orphan"]

\* _place_orphaned_documents over orphans[i..]; w holds the structure, the
\* tracked urls, the content cache and the analyses made so far
RECURSIVE place_orphaned_documents(_, _, _)
place_orphaned_documents(orphans, w, i) ==
    IF i > Len(orphans) THEN w
    ELSE LET orphan     == orphans[i]
             orphan_url == HtmlUrl(RelativeTo(orphan, docs_dir))
             placed(a)  ==
                 [toc     |-> [w.toc EXCEPT ![a.section] =
                                  Append(@, orphan_item(a.title, orphan_url))],
                  tracked |-> w.tracked \cup {orphan_url},
                  cache   |-> a.cache,
                  log     |-> Append(w.log,
                                 [orphan  |-> orphan,  section |-> a.section,
                                  title   |-> a.title, entered |-> a.entered,
                                  opens   |-> a.opens, scores  |-> a.scores])]
         IN  IF ~ IsFile(tree, orphan) \/ orphan_url \in w.tracked
             THEN place_orphaned_documents(orphans, w, i + 1)
             ELSE The({place_orphaned_documents(orphans, w1, i + 1) :
                         w1 \in {placed(a) :
                                    a \in {analyze_orphan_content(orphan, w.cache)}}})

\* the loop of generate_toc_structure over the discovered records docs[i..]
RECURSIVE AddDocuments(_, _, _)
AddDocuments(docs, w, i) ==
    IF i > Len(docs) THEN w
    ELSE LET doc  == docs[i]
             item == [title |-> doc.title, url |-> doc.url,
                      priority |-> doc.priority, category |-> doc.category]
         IN  AddDocuments(docs,
                 [w EXCEPT !.toc[TargetSection(doc)] = Append(@, item),
                           !.tracked = @ \cup {doc.url}],
                 i + 1)

\* the insertion of item into a sorted list, after the items of its priority
RECURSIVE InsertByPriority(_, _)
InsertByPriority(items, item) ==
    IF items = <<>> THEN <<item>>
    ELSE IF items[Len(items)].priority <= item.priority THEN Append(items, item)
    ELSE Append(InsertByPriority(SubSeq(items, 1, Len(items) - 1), item),
                items[Len(items)])

\* the items left in the order in which they were appended
SortByPriority_Skipped(items) == items

\* sorted(items, key=lambda x: x.get("priority", 50)): a stable sort
RECURSIVE SortByPriority(_)
SortByPriority(items) ==
    IF items = <<>> THEN <<>>
    ELSE InsertByPriority(SortByPriority(SubSeq(items, 1, Len(items) - 1)),
                          items[Len(items)])

\* generate_toc_structure: the returned structure, and the instance afterwards
generate_toc_structure(st) ==
    LET w0 == [toc |-> EmptyToc, tracked |-> st.tracked_documents,
               cache |-> st.file_content_cache, log |-> <<>>]
        w1 == AddDocuments(st.documents.user \o st.documents.auto \o st.documents.ai,
                           w0, 1)
        w2 == IF st.orphaned_documents # <<>>
              THEN place_orphaned_documents(st.orphaned_documents, w1, 1) ELSE w1
        returned(w) ==
            [toc  |-> [k \in DOMAIN w.toc |-> SortByPriority(w.toc[k])],
             log  |-> w.log,
             self |-> [st EXCEPT !.tracked_documents = w.tracked,
                                 !.file_content_cache = w.cache]]
    IN  The({returned(w) : w \in {w2}})

(***************************************************************************)
(* The instances and file trees explored                                   *)
(***************************************************************************)
\* the most files a tree holds
MaxFiles == 2

File(path, content) == [path |-> path, content |-> content, readable |-> TRUE]

\* the files a tree is made of, in traversal order
Pool ==
    <<File("/r/docs/user_docs/guides/setup.md",
           "# Setup Guide\nSee [API](../api.md#top)."),
      File("/r/docs/user_docs/guides/index.rst",
           "\nGuides\n======\n:doc:" \o Backtick \o "setup" \o Backtick),
      File("/r/docs/user_docs/README.md", "# Read Me"),
      File("/r/docs/user_docs/reference/cli.md", "usage"),
      File("/r/docs/notes.md", "quickstart tips"),
      File("/r/docs/auto_docs/api/p/q/s/m.rst", ".. include:: x.rst"),
      File("/r/docs/_build/out.md", "# Out"),
      File("/d/user_docs/guides/setup.md", "# Setup Guide"),
      File("/d/notes.md", "quickstart tips"),
      File("/d/autoapi/mod.md", "# Mod"),
      File("/d/misc.txt", "misc")>>

\* DocumentationDiscovery(repo_root, docs_dir): the documentation directory is
\* the structural root, a directory outside the repository, or a directory
\* inside the structural root
Layouts ==
    {[repo_root |-> "/r", docs_dir |-> "/r/docs"],
     [repo_root |-> "/r", docs_dir |-> "/d"],
     [repo_root |-> "/r", docs_dir |-> "/r/docs/user_docs"]}

\* the files of pool whose index is in S, in pool order
PickFrom(pool, S) ==
    SelectSeq([i \in 1..Len(pool) |-> IF i \in S THEN pool[i] ELSE <<>>],
              LAMBDA f : f # <<>>)

\* the files of Pool whose index is in S, in Pool order
Pick(S) == PickFrom(Pool, S)

Trees(layout) ==
    {Pick(S) : S \in {X \in SUBSET (1..Len(Pool)) :
        /\ Cardinality(X) <= MaxFiles
        /\ \A i \in X : \/ StartsWith(Pool[i].path, Join(layout.repo_root, "docs/"))
                        \/ StartsWith(Pool[i].path, layout.docs_dir \o "/")}}

\* last before the first discover_all; repeat tells that the last discover_all
\* scanned the very tree the discover_all before it scanned
NoDiscovery == [valid |-> FALSE, repeat |-> FALSE, tree |-> <<>>,
                documents |-> NoDocuments, orphaned_documents |-> <<>>]

\* metadata before any DocumentMetadata was constructed outside discovery
NoMetadata == [path |-> ""]

\* __init__
Init ==
    /\ \E layout \in Layouts :
          /\ repo_root = layout.repo_root
          /\ docs_dir = layout.docs_dir
          /\ doc_structure = get_doc_structure(layout.repo_root)
          /\ tree \in Trees(layout)
    /\ documents = NoDocuments
    /\ orphaned_documents = <<>>
    /\ tracked_documents = {}
    /\ file_content_cache = EmptyCache
    /\ toc = EmptyToc
    /\ analysed = <<>>
    /\ metadata = NoMetadata
    /\ pc = "new"
    /\ last = NoDiscovery
    /\ ToolsIdle

\* discover_all()
DiscoverAll ==
    \E st \in {discover_all(Self)} :
        /\ documents' = st.documents
        /\ orphaned_documents' = st.orphaned_documents
        /\ tracked_documents' = st.tracked_documents
        /\ file_content_cache' = st.file_content_cache
        /\ pc' = "discovered"
        /\ last' = [valid |-> TRUE, repeat |-> last.valid /\ last.tree = tree,
                    tree |-> tree, documents |-> st.documents,
                    orphaned_documents |-> st.orphaned_documents]
        /\ UNCHANGED <<tree, repo_root, docs_dir, doc_structure, toc, analysed,
                       metadata>>
        /\ UNCHANGED tools

\* generate_toc_structure()
GenerateTocStructure ==
    \E r \in {generate_toc_structure(Self)} :
        /\ toc' = r.toc
        /\ analysed' = r.log
        /\ tracked_documents' = r.self.tracked_documents
        /\ file_content_cache' = r.self.file_content_cache
        /\ pc' = IF pc = "discovered" THEN "generated" ELSE "regenerated"
        /\ UNCHANGED <<tree, repo_root, docs_dir, doc_structure, documents,
                       orphaned_documents, metadata, last>>
        /\ UNCHANGED tools

\* a file of the tree is deleted between two calls
RemoveFile ==
    \E i \in 1..Len(tree) :
        /\ tree' = SubSeq(tree, 1, i - 1) \o SubSeq(tree, i + 1, Len(tree))
        /\ pc' = IF pc = "new" THEN "new" ELSE "changed"
        /\ UNCHANGED <<repo_root, docs_dir, doc_structure, documents,
                       orphaned_documents, tracked_documents, file_content_cache,
                       toc, analysed, metadata, last>>
        /\ UNCHANGED tools

Next == DiscoverAll \/ GenerateTocStructure \/ RemoveFile

Spec == Init /\ [][Next]_vars

(***************************************************************************)
(* A documentation directory outside the repository: its files are orphans *)
(* that the classifier places, next to user records of the structural root *)
(***************************************************************************)
\* a file whose open() or read() raises
Unreadable(path) == [path |-> path, content |-> "", readable |-> FALSE]

Filler8 == "........"
Filler64 == Filler8 \o Filler8 \o Filler8 \o Filler8 \o Filler8 \o Filler8 \o Filler8 \o Filler8
\* 512 characters that hold no keyword
Filler512 == Filler64 \o Filler64 \o Filler64 \o Filler64 \o Filler64 \o Filler64 \o Filler64 \o Filler64

Corpus ==
    <<File("/d/installation_notes.md", "# API Notes\napi api api"),
      File("/d/api_examples.md", "text"),
      File("/d/guide_api.md", "text"),
      File("/d/long.md", "guide api api " \o Filler512 \o " guide guide"),
      File("/d/tie.md", "Setup and Usage"),
      File("/d/later.md", "setup usage usage"),
      File("/d/plain.txt", "nothing here"),
      Unreadable("/d/locked.md"),
      File("/d/my_notes.md", "# My Notes\nusage"),
      File("/d/page.rst", "\nBig Page\n========\ntutorial"),
      File("/r/docs/user_docs/Tutorials/first.md", "# First"),
      File("/r/docs/user_docs/misc/other.md", "# Other"),
      File("/r/docs/user_docs/guides/setup.md", "# Setup Guide")>>

CorpusTrees ==
    {PickFrom(Corpus, S) : S \in {X \in SUBSET (1..Len(Corpus)) : Cardinality(X) <= MaxFiles}}

\* DocumentationDiscovery("/r", docs_dir="/d") over a tree of Corpus files
CorpusInit ==
    /\ repo_root = "/r"
    /\ docs_dir = "/d"
    /\ doc_structure = get_doc_structure("/r")
    /\ tree \in CorpusTrees
    /\ documents = NoDocuments
    /\ orphaned_documents = <<>>
    /\ tracked_documents = {}
    /\ file_content_cache = EmptyCache
    /\ toc = EmptyToc
    /\ analysed = <<>>
    /\ metadata = NoMetadata
    /\ pc = "new"
    /\ last = NoDiscovery
    /\ ToolsIdle

CorpusSpec == CorpusInit /\ [][Next]_vars

(***************************************************************************)
(* Files that become unreadable between two calls                          *)
(***************************************************************************)
FaultPool ==
    <<File("/r/docs/user_docs/guides/broken.md", "# Broken Page\nSee [API](api.md)"),
      File("/r/docs/user_docs/guides/setup.md", "# Setup Guide"),
      File("/r/docs/user_docs/guides/zeta.rst", "\nZeta\n====\n"),
      File("/r/docs/auto_docs/api/mod.rst", "\nMod\n===\n"),
      File("/d/notes.md", "# Notes\nusage"),
      File("/d/tips.txt", "quickstart")>>

FaultTrees ==
    {PickFrom(FaultPool, S) :
        S \in {X \in SUBSET (1..Len(FaultPool)) : Cardinality(X) <= MaxFiles}}

FaultInit ==
    /\ repo_root = "/r"
    /\ docs_dir = "/d"
    /\ doc_structure = get_doc_structure("/r")
    /\ tree \in FaultTrees
    /\ documents = NoDocuments
    /\ orphaned_documents = <<>>
    /\ tracked_documents = {}
    /\ file_content_cache = EmptyCache
    /\ toc = EmptyToc
    /\ analysed = <<>>
    /\ metadata = NoMetadata
    /\ pc = "new"
    /\ last = NoDiscovery
    /\ ToolsIdle

\* a file of the tree loses its read permission, or is overwritten with bytes
\* that are no UTF-8
CorruptFile ==
    \E i \in 1..Len(tree) :
        /\ tree[i].readable
        /\ tree' = [tree EXCEPT ![i] = Unreadable(tree[i].path)]
        /\ pc' = IF pc = "new" THEN "new" ELSE "changed"
        /\ UNCHANGED <<repo_root, docs_dir, doc_structure, documents,
                       orphaned_documents, tracked_documents, file_content_cache,
                       toc, analysed, metadata, last>>
        /\ UNCHANGED tools

FaultNext == DiscoverAll \/ GenerateTocStructure \/ CorruptFile

FaultSpec == FaultInit /\ [][FaultNext]_vars

(***************************************************************************)
(* DocumentMetadata constructed for one path, of a file that may be        *)
(* missing from the tree or unreadable                                     *)
(***************************************************************************)
MetadataPool ==
    <<File("/r/docs/user_docs/guides/first.rst", "Overview\n========\ntext"),
      File("/r/docs/user_docs/guides/short.rst", "\nMy Title\n=======\ntext"),
      File("/r/docs/user_docs/guides/index.rst",
           "\nGuides\n======\n:doc:" \o Backtick \o "setup" \o Backtick),
      File("/r/docs/user_docs/guides/getting_started.md", "no heading here"),
      File("/r/docs/user_docs/guides/README.txt", "# Heading\nText\n===="),
      Unreadable("/r/docs/user_docs/guides/locked_file.md"),
      File("/r/docs/user_docs/guides/links.md", "[Guide](guides/setup.md#install)"),
      File("/r/docs/user_docs/guides/include.md", "# Parts\n.. include:: part.rst"),
      File("/r/docs/user_docs/guides/roles.rst",
           ":doc:" \o Backtick \o "api.rst#top" \o Backtick \o " and "
               \o Backtick \o "Guide <guide.md#x>" \o Backtick \o "_")>>

MetadataTrees ==
    {PickFrom(MetadataPool, S) :
        S \in {X \in SUBSET (1..Len(MetadataPool)) : Cardinality(X) <= MaxFiles}}

MetadataInit ==
    /\ repo_root = "/r"
    /\ docs_dir = "/r/docs"
    /\ doc_structure = get_doc_structure("/r")
    /\ tree \in MetadataTrees
    /\ documents = NoDocuments
    /\ orphaned_documents = <<>>
    /\ tracked_documents = {}
    /\ file_content_cache = EmptyCache
    /\ toc = EmptyToc
    /\ analysed = <<>>
    /\ metadata = NoMetadata
    /\ pc = "new"
    /\ last = NoDiscovery
    /\ ToolsIdle

\* DocumentMetadata(path), with the defaults of the constructor, for the path
\* of a pool file, in the tree or not
NewDocumentMetadata ==
    \E path \in Range(PathsOf(MetadataPool)) :
        /\ metadata' = DocumentMetadata(tree, path, "", "", 50)
        /\ UNCHANGED <<tree, repo_root, docs_dir, doc_structure, documents,
                       orphaned_documents, tracked_documents, file_content_cache,
                       toc, analysed, pc, last>>
        /\ UNCHANGED tools

MetadataSpec == MetadataInit /\ [][NewDocumentMetadata]_vars

(***************************************************************************)
(* Properties of discovery and TOC assembly                                *)
(***************************************************************************)
\* a documentation file below the documentation directory that is neither in
\* an underscore-prefixed path nor in an ignored directory
IsDocumentationFile(path) ==
    /\ StartsWith(path, docs_dir \o "/")
    /\ Suffix(path) \in Range(doc_extensions)
    /\ ~ HasUnderscorePart(path)
    /\ ~ \E d \in {"_build", "_static", "_templates", "venv", ".venv"} :
            IsUnder(path, Join(docs_dir, d))

\* the urls under which a structure can list the file at path: the url of its
\* record, and the url of its orphan item
UrlsOf(path) == {WithSuffix(path, ".html"), HtmlUrl(RelativeTo(path, docs_dir))}

\* the items of the structure, each with its section and position
TocItems == {<<k, i>> \in Range(TocSections) \X (1..(2 * (MaxFiles + 1))) : i <= Len(toc[k])}

ItemsOf(path) == {x \in TocItems : toc[x[1]][x[2]].url \in UrlsOf(path)}

AllDocuments == documents.user \o documents.auto \o documents.ai

\* the directories in which discovery looks for the records of a category
CategoryRoots ==
    {doc_structure["user_docs"], doc_structure["auto_docs"], doc_structure["ai_docs"],
     Join(docs_dir, "autoapi"), Join(docs_dir, "apidoc"), Join(docs_dir, "reference")}

\* C1: after discover_all followed by generate_toc_structure every
\* documentation file below the documentation directory, a file directly in a
\* category root or at the documentation root included, is an item of at least
\* one section.
C1_EveryFileInToc ==
    pc = "generated" =>
        \A i \in 1..Len(tree) :
            IsDocumentationFile(tree[i].path) => ItemsOf(tree[i].path) # {}

\* C2: after discover_all followed by generate_toc_structure no file that was
\* appended as a discovered record is appended again as an orphan item, in
\* every layout of the documentation directory.
C2_NoRecordAlsoOrphan ==
    pc = "generated" =>
        \A i \in 1..Len(tree) :
            ~ \E x, y \in ItemsOf(tree[i].path) :
                /\ toc[x[1]][x[2]].category # "orphan"
                /\ toc[y[1]][y[2]].category = "orphan"

\* C3: in every returned structure the priorities of adjacent items of a
\* section never decrease.
C3_SortedByPriority ==
    \A k \in Range(TocSections) : \A i \in 1..(Len(toc[k]) - 1) :
        toc[k][i].priority <= toc[k][i + 1].priority

\* a structure in which sorting moved a record in front of one discovered
\* before it
C3_Witness ==
    /\ pc = "generated"
    /\ Len(documents.user) = 2
    /\ documents.user[1].priority > documents.user[2].priority
    /\ Len(toc["user_guide"]) = 2
    /\ toc["user_guide"][1].url = documents.user[2].url
    /\ toc["user_guide"][1].priority < toc["user_guide"][2].priority

\* C4: in every returned structure no orphan item precedes an item of
\* category user, auto or ai in the item list of its section.
C4_OrphansSortLast ==
    \A k \in Range(TocSections) : \A i, j \in 1..Len(toc[k]) :
        i < j => ~ (toc[k][i].category = "orphan" /\ toc[k][j].category # "orphan")

\* C5: in every returned structure an orphan item has priority 90 and every
\* other item has the priority computed for its record at discovery time.
C5_ItemPriorities ==
    pc \in {"generated", "regenerated"} =>
        \A x \in TocItems :
            LET item == toc[x[1]][x[2]]
            IN  IF item.category = "orphan" THEN item.priority = 90
                ELSE \E i \in 1..Len(AllDocuments) :
                        LET doc == AllDocuments[i]
                        IN  /\ doc.url = item.url
                            /\ doc.category = item.category
                            /\ doc.priority = item.priority
                            /\ doc.priority =
                                 calculate_doc_priority(doc.path, doc.section, doc.category)

\* a structure that holds an orphan item and the item of a record
C5_Witness ==
    /\ pc = "generated"
    /\ \E x, y \in TocItems :
          /\ toc[x[1]][x[2]].category = "orphan"
          /\ toc[y[1]][y[2]].category \in {"user", "auto", "ai"}
          /\ toc[y[1]][y[2]].priority # 90

\* C6: after discover_all a documentation file that lies outside the user,
\* auto and ai category roots is listed in orphaned_documents, also when the
\* documentation directory is the structural root repo_root/docs.
C6_OutsideRootsOrphaned ==
    pc = "discovered" =>
        \A i \in 1..Len(tree) :
            (/\ IsDocumentationFile(tree[i].path)
             /\ ~ \E root \in CategoryRoots : IsUnder(tree[i].path, root))
                => tree[i].path \in Range(orphaned_documents)

\* C7: for a documentation directory that holds user_docs/guides/setup.md
\* (first heading "# Setup Guide") and notes.md (content "quickstart tips"),
\* discover_all followed by generate_toc_structure returns a user_guide
\* section with an item "Setup Guide" of category user and a getting_started
\* section with an item "Notes" of priority 90 and category orphan.
C7_EndToEnd ==
    (/\ pc = "generated"
     /\ PathsOf(tree) = <<Join(docs_dir, "user_docs/guides/setup.md"),
                          Join(docs_dir, "notes.md")>>)
        => /\ \E i \in 1..Len(toc["user_guide"]) :
                /\ toc["user_guide"][i].title = "Setup Guide"
                /\ toc["user_guide"][i].category = "user"
           /\ \E i \in 1..Len(toc["getting_started"]) :
                /\ toc["getting_started"][i].title = "Notes"
                /\ toc["getting_started"][i].priority = 90
                /\ toc["getting_started"][i].category = "orphan"

\* C8: a discover_all that scans the tree the previous discover_all scanned
\* yields the corpus and the orphan list the previous one yielded, whatever
\* ran on the instance in between.
C8_DiscoveryIdempotent ==
    [][(pc' = "discovered" /\ last.valid /\ last.tree = tree)
          => /\ documents' = last.documents
             /\ orphaned_documents' = last.orphaned_documents]_vars

\* a second discover_all over the same tree, run after a generate_toc_structure
\* that tracked the url of a record whose file was also listed as orphan
C8_Witness ==
    /\ pc = "discovered"
    /\ last.repeat
    /\ \E i \in 1..Len(AllDocuments) :
          /\ AllDocuments[i].path \in Range(orphaned_documents)
          /\ \E x \in TocItems : toc[x[1]][x[2]].url = AllDocuments[i].url

\* C9: every discover_all leaves no tracked url and no cached content, and
\* leaves the records and orphans that a new instance finds in the tree.
C9_DiscoveryReplaces ==
    pc = "discovered" =>
        LET new == discover_all([documents |-> NoDocuments,
                                 orphaned_documents |-> <<>>,
                                 tracked_documents |-> {},
                                 file_content_cache |-> EmptyCache])
        IN  /\ tracked_documents = {}
            /\ file_content_cache = EmptyCache
            /\ documents = new.documents
            /\ orphaned_documents = new.orphaned_documents
            /\ \A i \in 1..Len(AllDocuments) : IsFile(tree, AllDocuments[i].path)
            /\ \A i \in 1..Len(orphaned_documents) : IsFile(tree, orphaned_documents[i])

\* a discover_all run after the file of an earlier record was deleted: the
\* structure returned before still lists the record, the corpus does not
C9_Witness ==
    /\ pc = "discovered"
    /\ documents # NoDocuments
    /\ \E x \in TocItems :
          /\ toc[x[1]][x[2]].category # "orphan"
          /\ ~ \E i \in 1..Len(tree) : WithSuffix(tree[i].path, ".html") = toc[x[1]][x[2]].url

\* C10: after any discover_all no path occurs in more than one record of the
\* corpus.
C10_PathsUnique ==
    pc = "discovered" =>
        \A i, j \in 1..Len(AllDocuments) :
            AllDocuments[i].path = AllDocuments[j].path => i = j

(***************************************************************************)
(* Properties of the orphan classifier                                     *)
(***************************************************************************)
\* the sections of the keyword table, by position, of which a keyword occurs
\* in s
SectionsMatching(s) ==
    {j \in 1..Len(section_patterns) :
        \E p \in Range(section_patterns[j].patterns) : Contains(s, p)}

Least(S) == CHOOSE k \in S : \A m \in S : k <= m

\* the orphan item of the structure for the orphan at path
OrphanItems(path, k) ==
    {i \in 1..Len(toc[k]) :
        /\ toc[k][i].category = "orphan"
        /\ toc[k][i].url = HtmlUrl(RelativeTo(path, docs_dir))}

\* C11: an orphan whose lower-cased filename stem holds a keyword of exactly
\* one section is placed in that section, and the content stage is not
\* entered for it (nothing of its content is scored), whatever its content.
C11_SingleFilenameMatch ==
    \A i \in 1..Len(analysed) :
        LET a == analysed[i]
            m == SectionsMatching(Lower(Stem(a.orphan)))
        IN  Cardinality(m) = 1 =>
                /\ a.section = section_patterns[Least(m)].section
                /\ ~ a.entered
                /\ a.scores = <<>>
                /\ OrphanItems(a.orphan, a.section) # {}

\* an orphan placed by the only section its filename names, while its content
\* holds keywords of another section only
C11_Witness ==
    /\ pc = "generated"
    /\ \E i \in 1..Len(analysed) :
          LET a == analysed[i]
              m == SectionsMatching(Lower(Stem(a.orphan)))
              c == SectionScores(Lower(FileAt(tree, a.orphan).content))
          IN  /\ Cardinality(m) = 1
              /\ CanRead(tree, a.orphan)
              /\ c[Least(m)] = 0
              /\ \E j \in 1..Len(c) : c[j] > 0
              /\ OrphanItems(a.orphan, section_patterns[Least(m)].section) # {}

\* C12: an orphan whose filename stem holds keywords of several sections is
\* placed in the first of them in table order; a section that matches later
\* never replaces it.
C12_FirstFilenameMatchWins ==
    \A i \in 1..Len(analysed) :
        LET a == analysed[i]
            m == SectionsMatching(Lower(Stem(a.orphan)))
        IN  m # {} => /\ a.section = section_patterns[Least(m)].section
                      /\ OrphanItems(a.orphan, section_patterns[Least(m)].section) # {}

\* 3 x the occurrences of the keywords within the first 500 characters plus
\* 1 x their occurrences after character 500
WeightedScore(content, patterns) ==
    LET score(head, rest) ==
            SumSeq([k \in 1..Len(patterns) |->
                      3 * Count(head, patterns[k]) + Count(rest, patterns[k])])
    IN  The({score(head, rest) :
                head \in {SubSeq(content, 1, Min(500, Len(content)))},
                rest \in {SubSeq(content, 501, Len(content))}})

\* C13: in the content stage the score of a section is the sum over its
\* keywords of 3 x the occurrences within the first 500 characters of the
\* lower-cased content plus 1 x the occurrences after character 500.
C13_ContentScore ==
    pc = "generated" =>
        \A i \in 1..Len(analysed) :
            analysed[i].scores # <<>> =>
                \A c \in {Lower(FileAt(tree, analysed[i].orphan).content)} :
                    \A j \in 1..Len(section_patterns) :
                        analysed[i].scores[j]
                            = WeightedScore(c, section_patterns[j].patterns)

\* C14: an orphan that enters the content stage is placed in the section of
\* the highest score computed there, in the earliest such section in table
\* order when several share the highest score, and in "reference" when
\* every section scores 0 or the content cannot be read.
C14_ContentStageChoice ==
    \A i \in 1..Len(analysed) :
        LET a    == analysed[i]
            top  == {j \in 1..Len(a.scores) :
                        \A k \in 1..Len(a.scores) : a.scores[k] <= a.scores[j]}
            none == a.scores = <<>> \/ \A j \in 1..Len(a.scores) : a.scores[j] = 0
        IN  a.entered =>
                /\ (pc = "generated" => (a.scores = <<>>) = ~ CanRead(tree, a.orphan))
                /\ a.section = IF none THEN "reference"
                               ELSE section_patterns[Least(top)].section
                /\ OrphanItems(a.orphan, a.section) # {}

\* an orphan whose content gives two sections the same highest score
C14_Witness ==
    /\ pc = "generated"
    /\ \E i \in 1..Len(analysed) :
          LET a == analysed[i]
          IN  /\ a.entered
              /\ a.scores # <<>>
              /\ \E j, k \in 1..Len(a.scores) :
                    /\ j < k
                    /\ a.scores[j] = a.scores[k]
                    /\ a.scores[j] > 0
                    /\ \A n \in 1..Len(a.scores) : a.scores[n] <= a.scores[j]
                    /\ a.section = section_patterns[j].section

\* the title DocumentMetadata detects in the content of the file at path
DetectedTitle(path, content) ==
    IF Suffix(path) = ".md" THEN extract_markdown_title(content, FilenameTitle(path))
    ELSE IF Suffix(path) = ".rst" THEN extract_rst_title(content, FilenameTitle(path))
    ELSE FilenameTitle(path)

\* C15: the title of an orphan item is the title the heading detection of
\* DocumentMetadata gives for the content of the orphan, in its original
\* letter case, and the filename title only when no heading is found,
\* whichever stage chose the section.
C15_OrphanTitle ==
    pc = "generated" =>
        \A i \in 1..Len(analysed) :
            LET a == analysed[i]
            IN  CanRead(tree, a.orphan) =>
                    \A x \in OrphanItems(a.orphan, a.section) :
                        toc[a.section][x].title
                            = DetectedTitle(a.orphan, FileAt(tree, a.orphan).content)

\* C16: during one generate_toc_structure the file of an orphan is opened at
\* most once, whether the filename stage matched, the content stage scored
\* the content, or the read failed.
C16_ReadAtMostOnce ==
    \A i \in 1..Len(analysed) : analysed[i].opens <= 1

(***************************************************************************)
(* Properties of the record loop of generate_toc_structure                 *)
(***************************************************************************)
\* the section the lookup table gives a record
MappedSection(doc) ==
    IF Lower(doc.section) \in DOMAIN section_mapping
    THEN section_mapping[Lower(doc.section)] ELSE "reference"

ItemOfRecord(doc) ==
    [title |-> doc.title, url |-> doc.url, priority |-> doc.priority,
     category |-> doc.category]

\* C20: the structure generate_toc_structure returns holds the six base
\* sections and, for every discovered record, exactly one item {title, url,
\* priority, category} in the section that the lookup table gives the
\* lower-cased section name of the record ("reference" when it has none),
\* and the url of every record is tracked.
C20_RecordsAppended ==
    pc \in {"generated", "regenerated"} =>
        /\ DOMAIN toc = Range(TocSections)
        /\ \A k \in Range(TocSections) :
              \A item \in {ItemOfRecord(AllDocuments[i]) : i \in 1..Len(AllDocuments)}
                          \cup {toc[k][i] : i \in {j \in 1..Len(toc[k]) :
                                                      toc[k][j].category # "orphan"}} :
                  Cardinality({i \in 1..Len(toc[k]) : toc[k][i] = item})
                      = Cardinality({i \in 1..Len(AllDocuments) :
                                        /\ ItemOfRecord(AllDocuments[i]) = item
                                        /\ MappedSection(AllDocuments[i]) = k})
        /\ \A i \in 1..Len(AllDocuments) : AllDocuments[i].url \in tracked_documents

\* a structure built from a record whose section name the table does not
\* hold and a record whose section name the table holds in lower case only
C20_Witness ==
    /\ pc = "generated"
    /\ \E i, j \in 1..Len(AllDocuments) :
          /\ Lower(AllDocuments[i].section) \notin DOMAIN section_mapping
          /\ ItemOfRecord(AllDocuments[i]) \in Range(toc["reference"])
          /\ AllDocuments[j].section \notin DOMAIN section_mapping
          /\ Lower(AllDocuments[j].section) \in DOMAIN section_mapping
          /\ ItemOfRecord(AllDocuments[j]) \in Range(toc[MappedSection(AllDocuments[j])])
          /\ MappedSection(AllDocuments[j]) # "reference"

(***************************************************************************)
(* Properties of DocumentMetadata                                          *)
(***************************************************************************)
\* the first non-empty line of content that a line of "=" or "-" follows
\* whose length the line reaches to 80%, or title when there is none
UnderlinedTitle(content, title) ==
    LET lines == Split(content, "\n")
        hit(k) == /\ Strip(lines[k]) # ""
                  /\ IsUnderline(lines[k + 1])
                  /\ 10 * Len(Strip(lines[k])) >= 8 * Len(Strip(lines[k + 1]))
                  /\ 10 * Len(Strip(lines[k + 1])) >= 8 * Len(Strip(lines[k]))
        hits  == {k \in 1..(Len(lines) - 1) : hit(k)}
    IN  IF hits = {} THEN title ELSE Strip(lines[Least(hits)])

\* C17: the title of the DocumentMetadata of a .rst file is the first
\* non-empty line immediately followed by a line of "=" or "-" characters of
\* a length within the 80% tolerance, the first line of the file and an
\* underline of another length than the title included.
C17_RstTitle ==
    (metadata # NoMetadata /\ Suffix(metadata.path) = ".rst"
        /\ CanRead(tree, metadata.path))
        => metadata.title = UnderlinedTitle(FileAt(tree, metadata.path).content,
                                            FilenameTitle(metadata.path))

\* w.capitalize()
Capitalize(w) == IF w = "" THEN "" ELSE UpperCh(Ch(w, 1)) \o Lower(From(w, 2))

\* the words of f, capitalized and joined by blanks
RECURSIVE CapitalizedWords(_)
CapitalizedWords(f) ==
    IF Len(f) = 1 THEN Capitalize(f[1])
    ELSE Capitalize(f[1]) \o " " \o CapitalizedWords(Tail(f))

\* no heading syntax is recognized in the file at path: it is missing or
\* unreadable, it is no .md and no .rst file, it is a .md file without a line
\* that starts with "#" and white space, or a .rst file without an underline
NoHeading(path) ==
    \/ ~ CanRead(tree, path)
    \/ Suffix(path) \notin {".md", ".rst"}
    \/ /\ Suffix(path) = ".md"
       /\ \A l \in Range(Split(FileAt(tree, path).content, "\n")) :
             ~ (StartsWith(l, "#") /\ Len(l) > 1 /\ IsSpace(Ch(l, 2)))
    \/ /\ Suffix(path) = ".rst"
       /\ \A l \in Range(Split(FileAt(tree, path).content, "\n")) : ~ IsUnderline(l)

\* C18: the DocumentMetadata of a file in which no heading syntax is
\* recognized (a .txt file, a missing file and an unreadable file included)
\* has as title the filename stem with underscores replaced by blanks and
\* each word capitalized.
C18_FilenameTitle ==
    (metadata # NoMetadata /\ NoHeading(metadata.path))
        => metadata.title = CapitalizedWords(Split(Stem(metadata.path), "_"))

\* the DocumentMetadata of a missing file whose stem holds an underscore
C18_Witness ==
    /\ metadata # NoMetadata
    /\ ~ Exists(tree, metadata.path)
    /\ Contains(Stem(metadata.path), "_")
    /\ Contains(metadata.title, " ")

\* C19: every reference of a record, whichever syntax it came from, has
\* neither an anchor fragment nor a file extension, and the Markdown content
\* [Guide](guides/setup.md#install) yields exactly {guides/setup}.
C19_ReferencesNormalized ==
    (metadata # NoMetadata /\ CanRead(tree, metadata.path)) =>
        /\ \A r \in metadata.references :
              /\ ~ Contains(r, "#")
              /\ ~ \E x \in Range(doc_extensions) : EndsWith(r, x)
        /\ (/\ Suffix(metadata.path) = ".md"
            /\ FileAt(tree, metadata.path).content = "[Guide](guides/setup.md#install)")
               => metadata.references = {"guides/setup"}

(***************************************************************************)
(* Properties of discovery over unreadable files                           *)
(***************************************************************************)
\* the files of t that can be read
ReadablePaths(t) == {t[i].path : i \in {j \in 1..Len(t) : t[j].readable}}

\* C21: discover_all and generate_toc_structure return whatever files are
\* unreadable; an unreadable file contributes a record with the filename
\* title and no reference, or an orphan item; and a discover_all over a tree
\* in which files became unreadable records every file that stayed readable
\* exactly as the discover_all before, and as many records and orphans.
C21_BadFileIsolated ==
    [][/\ (tree' = tree /\ \E i \in 1..Len(tree) : ~ tree[i].readable)
             => pc' \in {"discovered", "generated", "regenerated"}
       /\ pc = "discovered" =>
             \A i \in 1..Len(AllDocuments) :
                 ~ CanRead(tree, AllDocuments[i].path) =>
                     /\ AllDocuments[i].title = FilenameTitle(AllDocuments[i].path)
                     /\ AllDocuments[i].references = {}
       /\ pc = "generated" =>
             \A i \in 1..Len(orphaned_documents) :
                 \E k \in Range(TocSections) :
                     OrphanItems(orphaned_documents[i], k) # {}
       /\ (pc' = "discovered" /\ last.valid /\ PathsOf(last.tree) = PathsOf(tree))
            => /\ orphaned_documents' = last.orphaned_documents
               /\ \A c \in DOMAIN NoDocuments :
                     /\ Len(documents'[c]) = Len(last.documents[c])
                     /\ \A i \in 1..Len(last.documents[c]) :
                           /\ documents'[c][i].path = last.documents[c][i].path
                           /\ documents'[c][i].path \in ReadablePaths(tree)
                                 => documents'[c][i] = last.documents[c][i]]_vars

\* a corpus discovered again after the file of a record became unreadable:
\* the structure generated before still shows the heading of the file, the
\* record now has the filename title, and a readable file of the same section
\* is recorded next to it
C21_Witness ==
    /\ pc = "discovered"
    /\ \E i, j \in 1..Len(documents.user) :
          /\ ~ CanRead(tree, documents.user[i].path)
          /\ documents.user[i].title = FilenameTitle(documents.user[i].path)
          /\ \E x \in TocItems :
                /\ toc[x[1]][x[2]].url = documents.user[i].url
                /\ toc[x[1]][x[2]].title # documents.user[i].title
          /\ i < j
          /\ documents.user[j].section = documents.user[i].section
          /\ CanRead(tree, documents.user[j].path)

\* C28: a generate_toc_structure that directly follows another on the same
\* instance, with no discover_all and no file change in between, returns the
\* structure the first returned, orphan items included.
C28_GenerateRepeatable ==
    [][(pc = "generated" /\ pc' = "regenerated") => toc' = toc]_vars

(***************************************************************************)
(* run.py: the complete workflow, cmd_all                                  *)
(*                                                                         *)
(* What a step does is what it hands to run_command; the code a command    *)
(* returns is the environment's choice.                                    *)
(***************************************************************************)
\* the largest return code a command gives
MaxCode == 2

Codes == 0..MaxCode

\* no SourceDiscovery takes part
DiscoveryIdle ==
    /\ repo_root = "/r"
    /\ docs_dir = "/r/docs"
    /\ doc_structure = get_doc_structure("/r")
    /\ documents = NoDocuments
    /\ orphaned_documents = <<>>
    /\ tracked_documents = {}
    /\ file_content_cache = EmptyCache
    /\ toc = EmptyToc
    /\ analysed = <<>>
    /\ metadata = NoMetadata
    /\ pc = "new"
    /\ last = NoDiscovery

\* run_command(cmd) that returned code
Ran(cmd, code) == [cmd |-> cmd, code |-> code]

\* cmd_setup: pip install; then create_missing_files.sh when it exists, whose
\* failure falls back on create_directory_structure
cmd_setup(script_exists, pip, chmod, script) ==
    IF pip # 0 THEN [code |-> pip, commands |-> <<Ran("pip", pip)>>]
    ELSE IF ~ script_exists THEN [code |-> 0, commands |-> <<Ran("pip", pip)>>]
    ELSE IF chmod # 0
         THEN [code |-> 0, commands |-> <<Ran("pip", pip), Ran("chmod", chmod)>>]
    ELSE [code |-> 0,
          commands |-> <<Ran("pip", pip), Ran("chmod", chmod),
                         Ran("create_missing_files.sh", script)>>]

\* cmd_fix(fix_args): fix_args has neither fix_orphans nor fix_toc, so only
\* the cross-references are updated
cmd_fix(xref) ==
    [code |-> xref, commands |-> <<Ran("update_cross_references.py", xref)>>]

\* cmd_analyze(analyze_args)
cmd_analyze(report) ==
    [code |-> report, commands |-> <<Ran("doc_toc_analyzer.py --report", report)>>]

\* cmd_build(build_args): formats = ["html"], fix = False; the browser is
\* opened after a successful build when asked for and index.html exists
cmd_build(open_after, index_exists, platform, sphinx, browser) ==
    IF sphinx # 0 THEN [code |-> sphinx, commands |-> <<Ran("sphinx -b html", sphinx)>>]
    ELSE IF open_after /\ index_exists /\ platform = "linux"
         THEN [code |-> 0, commands |-> <<Ran("sphinx -b html", sphinx),
                                          Ran("xdg-open", browser)>>]
    ELSE IF open_after /\ index_exists /\ platform = "darwin"
         THEN [code |-> 0, commands |-> <<Ran("sphinx -b html", sphinx),
                                          Ran("open", browser)>>]
    ELSE IF open_after /\ index_exists /\ platform = "win32"
         THEN [code |-> 0, commands |-> <<Ran("sphinx -b html", sphinx),
                                          Ran("start", browser)>>]
    ELSE [code |-> 0, commands |-> <<Ran("sphinx -b html", sphinx)>>]

\* cmd_all stopping at the first step that fails
cmd_all_after_stopping(step, code) ==
    IF code # 0 THEN "returned"
    ELSE CASE step = "setup"   -> "fix"
           [] step = "fix"     -> "analyze"
           [] step = "analyze" -> "build"
           [] step = "build"   -> "returned"

\* where cmd_all goes after a step that returned code
cmd_all_after(step, code) ==
    CASE step = "setup"   -> IF code # 0 THEN "returned" ELSE "fix"
      [] step = "fix"     -> "analyze"
      [] step = "analyze" -> "build"
      [] step = "build"   -> "returned"

\* the workflow after the step at which it stands returned r
Stepped(w, r) ==
    LET to == cmd_all_after(w.pc, r.code)
    IN  [w EXCEPT !.pc = to,
                  !.steps = Append(@, [step |-> w.pc, code |-> r.code]),
                  !.commands = @ \o r.commands,
                  !.returned = IF to # "returned" THEN @
                               ELSE IF r.code # 0 THEN r.code ELSE 0]

Platforms == {"linux", "darwin", "win32"}

\* cmd_all(args) is called
WorkflowInit ==
    /\ DiscoveryIdle
    /\ tree = <<>>
    /\ \E open \in BOOLEAN, script_exists \in BOOLEAN, platform \in Platforms :
          workflow = [pc |-> "setup", open |-> open, script_exists |-> script_exists,
                      platform |-> platform, steps |-> <<>>, commands |-> <<>>,
                      returned |-> -1]
    /\ analyzer = NotStarted
    /\ fixer = NotStarted
    /\ manager = NotStarted
    /\ resolver = NotStarted
    /\ command = NotStarted

\* Step 1: code = cmd_setup(args)
CmdSetup ==
    /\ workflow.pc = "setup"
    /\ \E pip \in Codes, chmod \in Codes, script \in Codes :
          workflow' = Stepped(workflow,
                              cmd_setup(workflow.script_exists, pip, chmod, script))
    /\ UNCHANGED <<discovery, analyzer, fixer, manager, resolver, command>>

\* Step 2: code = cmd_fix(fix_args)
CmdFix ==
    /\ workflow.pc = "fix"
    /\ \E xref \in Codes : workflow' = Stepped(workflow, cmd_fix(xref))
    /\ UNCHANGED <<discovery, analyzer, fixer, manager, resolver, command>>

\* Step 3: cmd_analyze(analyze_args)
CmdAnalyze ==
    /\ workflow.pc = "analyze"
    /\ \E report \in Codes : workflow' = Stepped(workflow, cmd_analyze(report))
    /\ UNCHANGED <<discovery, analyzer, fixer, manager, resolver, command>>

\* Step 4: code = cmd_build(build_args)
CmdBuild ==
    /\ workflow.pc = "build"
    /\ \E index_exists \in BOOLEAN, sphinx \in Codes, browser \in Codes :
          workflow' = Stepped(workflow,
                              cmd_build(workflow.open, index_exists,
                                        workflow.platform, sphinx, browser))
    /\ UNCHANGED <<discovery, analyzer, fixer, manager, resolver, command>>

WorkflowNext == CmdSetup \/ CmdFix \/ CmdAnalyze \/ CmdBuild

WorkflowSpec == WorkflowInit /\ [][WorkflowNext]_vars

\* the names of the steps run, in order
RECURSIVE StepNames(_)
StepNames(steps) ==
    IF steps = <<>> THEN <<>> ELSE <<steps[1].step>> \o StepNames(Tail(steps))

HasKey(d, k) == \E i \in 1..Len(d) : d[i].key = k

\* d[k]
DictGet(d, k) == d[CHOOSE i \in 1..Len(d) : d[i].key = k].value

\* d[k] = v: a key that is present keeps its place
DictSet(d, k, v) ==
    IF HasKey(d, k)
    THEN [i \in 1..Len(d) |-> IF d[i].key = k THEN [key |-> k, value |-> v] ELSE d[i]]
    ELSE Append(d, [key |-> k, value |-> v])

\* d.keys() as a set
Keys(d) == {d[i].key : i \in 1..Len(d)}

\* the fence of a markdown block, three characters U+0060
Fence == Backtick \o Backtick \o Backtick

\* re.findall(open + '(.*?)' + close, s, re.DOTALL) from position i on: the
\* text between an occurrence of open and the next close, then on after close
RECURSIVE Between(_, _, _, _)
Between(s, open, close, i) ==
    LET a == FindFrom(s, open, i)
        b == IF a = 0 THEN 0 ELSE FindFrom(s, close, a + Len(open))
    IN  IF b = 0 THEN <<>>
        ELSE <<SubSeq(s, a + Len(open), b - 1)>>
                 \o Between(s, open, close, b + Len(close))

\* [a-zA-Z0-9_/.-]
EntryChars ==
    LET cs == LowerLetters \o UpperLetters \o "0123456789_/.-"
    IN  {Ch(cs, i) : i \in 1..Len(cs)}

\* the first position >= i of s that holds no character of an entry
RECURSIVE SkipEntry(_, _)
SkipEntry(s, i) ==
    IF i <= Len(s) /\ Ch(s, i) \in EntryChars THEN SkipEntry(s, i + 1) ELSE i

\* re.findall(r'\n\s*([a-zA-Z0-9_/.-]+)', block) from position i on
RECURSIVE TocEntriesFrom(_, _)
TocEntriesFrom(block, i) ==
    LET n == FindFrom(block, "\n", i)
        a == SkipSpace(block, n + 1)
        b == SkipEntry(block, a)
    IN  IF n = 0 THEN <<>>
        ELSE IF b > a THEN <<SubSeq(block, a, b - 1)>> \o TocEntriesFrom(block, b)
        ELSE TocEntriesFrom(block, n + 1)

\* the toctree blocks of a file, by its format
ToctreeBlocks(path, content) ==
    IF Suffix(path) = ".md" THEN Between(content, Fence \o "{toctree}", Fence, 1)
    ELSE IF Suffix(path) = ".rst" THEN Between(content, ".. toctree::", "\n\n", 1)
    ELSE <<>>

\* TocEntry(title, entry, 0), the title made of the basename of the entry
TocEntry(entry) ==
    [title |-> Title(Replace(Name(entry), "_", " ")), target |-> entry, level |-> 0]

\* the entries of the blocks f[1], ..., f[n], in order
RECURSIVE BlockEntries(_)
BlockEntries(f) ==
    IF f = <<>> THEN <<>>
    ELSE [i \in 1..Len(TocEntriesFrom(f[1], 1)) |-> TocEntry(TocEntriesFrom(f[1], 1)[i])]
             \o BlockEntries(Tail(f))

\* _scan_docs over the paths a glob yields
RECURSIVE ScanPaths(_, _, _)
ScanPaths(paths, dir, docs_map) ==
    IF paths = <<>> THEN docs_map
    ELSE IF HasUnderscorePart(paths[1]) THEN ScanPaths(Tail(paths), dir, docs_map)
    ELSE LET rel_path == RelativeTo(paths[1], dir)
         IN  ScanPaths(Tail(paths), dir,
                       DictSet(DictSet(docs_map, WithSuffix(rel_path, ""), paths[1]),
                               rel_path, paths[1]))

\* _scan_docs: the markdown files, then the RST files
scan_docs(t, dir) ==
    ScanPaths(Glob(t, dir, ".rst"), dir, ScanPaths(Glob(t, dir, ".md"), dir, <<>>))

\* list.extend on the value of a defaultdict(list); nothing is added, and no
\* key is made, when there is no entry
Extend(d, k, entries) ==
    IF entries = <<>> THEN d
    ELSE DictSet(d, k, (IF HasKey(d, k) THEN DictGet(d, k) ELSE <<>>) \o entries)

\* _extract_toc_from_file: an exception of open or read is logged
extract_toc_from_file(self, t, file_path, is_main) ==
    IF ~ CanRead(t, file_path) THEN self
    ELSE LET found == BlockEntries(ToctreeBlocks(file_path, FileAt(t, file_path).content))
         IN  [self EXCEPT
                 !.entries_by_file =
                     Extend(@, RelativeTo(file_path, self.docs_dir), found),
                 !.main_toc = IF is_main THEN @ \o found ELSE @]

\* the loop of _extract_toc_structures over the items of docs_map from i on
RECURSIVE ExtractOthers(_, _, _, _)
ExtractOthers(self, t, index_path, i) ==
    IF i > Len(self.docs_map) THEN self
    ELSE LET file_path == self.docs_map[i].value
         IN  ExtractOthers(
                 IF file_path # index_path /\ IsFile(t, file_path)
                 THEN extract_toc_from_file(self, t, file_path, FALSE) ELSE self,
                 t, index_path, i + 1)

\* the values of a dict of lists, one after the other
RECURSIVE Values(_)
Values(d) == IF d = <<>> THEN <<>> ELSE d[1].value \o Values(Tail(d))

\* _identify_orphans; list(set) has the order of the set
identify_toc_orphans(self) ==
    [self EXCEPT !.orphaned_docs =
        Keys(self.docs_map) \ {e.target : e \in Range(Values(self.entries_by_file))}]

\* _analyze_structure: the missing_target issues in the order of the entries,
\* then one orphaned_document issue for each orphaned doc id
analyze_structure(self) ==
    [self EXCEPT !.structural_issues =
        [missing_target |-> SelectSeq(Values(self.entries_by_file),
                                      LAMBDA e : e.target \notin Keys(self.docs_map)),
         orphaned_document |-> self.orphaned_docs]]

\* _extract_toc_structures
extract_toc_structures(self, t) ==
    LET md         == Join(self.docs_dir, "index.md")
        index_path == IF Exists(t, md) THEN md ELSE Join(self.docs_dir, "index.rst")
        main       == IF Exists(t, index_path)
                      THEN extract_toc_from_file(self, t, index_path, TRUE) ELSE self
    IN  analyze_structure(identify_toc_orphans(ExtractOthers(main, t, index_path, 1)))

\* TocAnalyzer(docs_dir)
TocAnalyzer(t, dir) ==
    extract_toc_structures(
        [docs_dir |-> dir, docs_map |-> scan_docs(t, dir), entries_by_file |-> <<>>,
         main_toc |-> <<>>, orphaned_docs |-> {},
         structural_issues |-> [missing_target |-> <<>>, orphaned_document |-> {}]], t)

\* the number of issues of each type
IssueTypes(self) ==
    [missing_target |-> Len(self.structural_issues.missing_target),
     orphaned_document |-> Cardinality(self.structural_issues.orphaned_document)]

\* analyze_toc(docs_dir, generate_report): the analyzer it made and the dict
\* it returned
analyze_toc(t, dir, generate_report) ==
    IF ~ IsDir(t, dir)
    THEN [pc |-> "failed", results |-> [error |-> "Not a valid directory: " \o dir]]
    ELSE LET self  == TocAnalyzer(t, dir)
             basic == [main_toc_entries |-> Len(self.main_toc),
                       orphaned_documents |-> self.orphaned_docs,
                       structural_issues |-> IssueTypes(self),
                       issue_count |-> IssueTypes(self).missing_target
                                          + IssueTypes(self).orphaned_document]
             report == [toc_entries_by_file |->
                            [i \in 1..Len(self.entries_by_file) |->
                                [key |-> self.entries_by_file[i].key,
                                 value |-> Len(self.entries_by_file[i].value)]],
                        main_toc_structure |->
                            [i \in 1..Len(self.main_toc) |->
                                [title |-> self.main_toc[i].title,
                                 target |-> self.main_toc[i].target]],
                        issue_details |-> self.structural_issues]
         IN  [pc |-> "analyzed", self |-> self,
              results |-> IF generate_report
                          THEN basic @@ [detailed_report |-> report] ELSE basic]

\* the files a documentation directory with toctrees is made of
TocPool ==
    <<File("/r/docs/index.md",
           "# Docs\n" \o Fence \o "{toctree}\n:maxdepth: 2\n\nguide\napi/usage.md\nmissing\n" \o Fence \o "\n"),
      File("/r/docs/index.rst",
           ".. toctree::\n   :caption: Main\n   tips\n   guide\n\nText\n"),
      File("/r/docs/guide.md", "# Guide\n"),
      File("/r/docs/guide.rst", "Guide\n=====\n"),
      File("/r/docs/tips.rst", ".. toctree::\n\n   guide\n\n"),
      File("/r/docs/api/usage.md", Fence \o "{toctree}\ngone\nguide.md\n" \o Fence),
      File("/r/docs/notes.rst", ".. toctree::\n   nowhere\n\n"),
      File("/r/docs/_build/out.md", Fence \o "{toctree}\nguide\n" \o Fence),
      File("/r/docs/readme.txt", Fence \o "{toctree}\nguide\n" \o Fence),
      Unreadable("/r/docs/locked.md")>>

TocTrees ==
    {PickFrom(TocPool, S) :
        S \in {X \in SUBSET (1..Len(TocPool)) : Cardinality(X) <= MaxFiles}}

TocInit ==
    /\ DiscoveryIdle
    /\ tree \in TocTrees
    /\ workflow = NotStarted
    /\ analyzer = NotStarted
    /\ fixer = NotStarted
    /\ manager = NotStarted
    /\ resolver = NotStarted
    /\ command = NotStarted

\* analyze_toc(docs_dir, generate_report) over the tree
AnalyzeToc ==
    /\ \E dir \in {"/r/docs", "/r/docs/api", "/r/manual"}, generate_report \in BOOLEAN :
          analyzer' = analyze_toc(tree, dir, generate_report)
    /\ UNCHANGED <<discovery, workflow, fixer, manager, resolver, command>>

TocSpec == TocInit /\ [][AnalyzeToc]_vars

(***************************************************************************)
(* Properties of the TOC analysis                                          *)
(***************************************************************************)
\* the identifiers of a documentation file: its path below the documentation
\* directory, with and without extension
Identifiers(path, dir) == {RelativeTo(path, dir), WithSuffix(RelativeTo(path, dir), "")}

\* the documentation files the analyzer scanned
ScannedFiles(self) == {self.docs_map[i].value : i \in 1..Len(self.docs_map)}

\* the targets of the toctree entries the analyzer recorded
RecordedTargets(self) == {e.target : e \in Range(Values(self.entries_by_file))}

\* C22: a documentation file that a recorded toctree entry targets, by its
\* path with or without extension, is in orphaned_docs under none of its
\* identifiers, and no orphaned_document issue names it.
C22_ReferencedNotOrphaned ==
    analyzer.pc = "analyzed" =>
        \A path \in ScannedFiles(analyzer.self) :
            LET ids == Identifiers(path, analyzer.self.docs_dir)
            IN  ids \cap RecordedTargets(analyzer.self) # {} =>
                    /\ ids \cap analyzer.self.orphaned_docs = {}
                    /\ ids \cap analyzer.self.structural_issues.orphaned_document = {}
                    /\ ids \cap analyzer.results.orphaned_documents = {}

\* the toctree entries that the file at path holds
FileEntries(t, path) ==
    IF CanRead(t, path) THEN BlockEntries(ToctreeBlocks(path, FileAt(t, path).content))
    ELSE <<>>

\* the entries recorded for the file at path
RecordedEntries(self, path) ==
    LET rel_path == RelativeTo(path, self.docs_dir)
    IN  IF HasKey(self.entries_by_file, rel_path)
        THEN DictGet(self.entries_by_file, rel_path) ELSE <<>>

\* the places <<file, i>> of the toctree entries whose target matches no
\* documentation file
MissingPlaces(self, t) ==
    UNION {{<<path, i>> : i \in {j \in 1..Len(FileEntries(t, path)) :
                              FileEntries(t, path)[j].target \notin Keys(self.docs_map)}} :
           path \in ScannedFiles(self)}

\* C23: analyze_toc over a directory returns its result; every toctree entry
\* of a scanned file is recorded once in entries_by_file; there is one
\* missing_target issue for each entry whose target matches no documentation
\* file, and issue_count counts these and the orphaned documents.
C23_MissingTargetOnce ==
    analyzer.pc = "analyzed" =>
          LET self == analyzer.self
          IN  /\ "issue_count" \in DOMAIN analyzer.results
              /\ \A path \in ScannedFiles(self) :
                     RecordedEntries(self, path) = FileEntries(tree, path)
              /\ Len(self.structural_issues.missing_target)
                     = Cardinality(MissingPlaces(self, tree))
              /\ analyzer.results.issue_count
                     = Cardinality(MissingPlaces(self, tree))
                           + Cardinality(self.orphaned_docs)

(***************************************************************************)
(* update_toctrees.py: class TocTreeManager                                *)
(***************************************************************************)
\* the printable characters in code point order
Ascii ==
    " !\"#$%&'()*+,-./0123456789:;<=>?@" \o UpperLetters \o "[\\]^_" \o Backtick
        \o LowerLetters \o "{|}~"

Ord(c) == FindFrom(Ascii, c, 1)

\* a < b for two strings
RECURSIVE StrLess(_, _)
StrLess(a, b) ==
    IF Len(b) = 0 THEN FALSE
    ELSE IF Len(a) = 0 THEN TRUE
    ELSE IF Ch(a, 1) = Ch(b, 1) THEN StrLess(From(a, 2), From(b, 2))
    ELSE Ord(Ch(a, 1)) < Ord(Ch(b, 1))

\* sorted(S) for a set of strings
RECURSIVE Sorted(_)
Sorted(S) ==
    IF S = {} THEN <<>>
    ELSE LET m == CHOOSE x \in S : \A y \in S \ {x} : StrLess(x, y)
         IN  <<m>> \o Sorted(S \ {m})

\* the file at path rewritten with content
WriteText(t, path, content) ==
    [i \in 1..Len(t) |-> IF t[i].path = path THEN [t[i] EXCEPT !.content = content]
                         ELSE t[i]]

\* start of the first '.. toctree::' or fenced '{toctree}' at or after i, or 0
DirectiveAt(s, i) ==
    LET a == FindFrom(s, ".. toctree::", i)
        b == FindFrom(s, Fence \o "{toctree}", i)
    IN  IF a = 0 THEN b ELSE IF b = 0 THEN a ELSE IF a < b THEN a ELSE b

\* the first position j >= i of a line break that a second line break or a
\* character other than white space follows ('\n\n|\n[^\s]'), or 0
RECURSIVE DirectiveEnd(_, _)
DirectiveEnd(s, i) ==
    LET j == FindFrom(s, "\n", i)
    IN  IF j = 0 \/ j = Len(s) THEN 0
        ELSE IF Ch(s, j + 1) = "\n" \/ ~ IsSpace(Ch(s, j + 1)) THEN j
        ELSE DirectiveEnd(s, j + 1)

\* re.finditer(r'(?:\.\. toctree::|```{toctree})(.*?)(?:\n\n|\n[^\s])', s,
\* re.DOTALL) from position i on: group 1 and the end of every match
RECURSIVE ToctreeMatches(_, _)
ToctreeMatches(s, i) ==
    LET a == DirectiveAt(s, i)
        g == a + 12   \* either directive is 12 characters long
        j == IF a = 0 THEN 0 ELSE DirectiveEnd(s, g)
    IN  IF j = 0 THEN <<>>
        ELSE <<[content |-> SubSeq(s, g, j - 1), end |-> j + 1]>>
                 \o ToctreeMatches(s, j + 2)

\* the caption of a toctree: what follows ':caption:' on the first line that
\* holds it, None ("") when no line does
Caption(toctree_content) ==
    LET lines == Split(Strip(toctree_content), "\n")
        with  == {i \in 1..Len(lines) : Contains(lines[i], ":caption:")}
        first == CHOOSE i \in with : \A k \in with : i <= k
    IN  IF with = {} THEN ""
        ELSE Strip(From(lines[first], FindFrom(lines[first], ":caption:", 1) + 9))

\* the body of the loop over the documents of one toctree
RECURSIVE TrackDocs(_, _, _, _)
TrackDocs(self, toc_key, docs, i) ==
    IF i > Len(docs) THEN self
    ELSE LET doc    == docs[i]
             listed == IF HasKey(self.toctrees, toc_key)
                       THEN DictGet(self.toctrees, toc_key) ELSE <<>>
             trees  == DictSet(self.toctrees, toc_key,
                               IF doc \in Range(listed) THEN listed
                               ELSE Append(listed, doc))
             others == SelectSeq(trees, LAMBDA x : x.key # toc_key /\ doc \in Range(x.value))
             pairs  == [k \in 1..Len(others) |-> <<toc_key, others[k].key>>]
             before == IF HasKey(self.duplicate_references, doc)
                       THEN DictGet(self.duplicate_references, doc) ELSE <<>>
         IN  TrackDocs([self EXCEPT
                           !.referenced_docs = @ \cup {doc},
                           !.toctrees = trees,
                           !.duplicate_references =
                               IF pairs = <<>> THEN @ ELSE DictSet(@, doc, before \o pairs)],
                       toc_key, docs, i + 1)

\* the loop of analyze_toctrees over the toctree matches
RECURSIVE TrackToctrees(_, _, _)
TrackToctrees(self, matches, i) ==
    IF i > Len(matches) THEN self
    ELSE LET caption == Caption(matches[i].content)
         IN  TrackToctrees(
                 TrackDocs(self, IF caption = "" THEN "main" ELSE caption,
                           TocEntriesFrom(matches[i].content, 1), 1),
                 matches, i + 1)

\* _is_excluded(root, file) for a file with a documentation extension
is_excluded(root) ==
    \E excl \in {"_build", "_static", "_templates", "__pycache__"} : Contains(root, excl)

\* _strip_extension
strip_extension(path) ==
    IF EndsWith(path, ".md") THEN SubSeq(path, 1, Len(path) - 3)
    ELSE IF EndsWith(path, ".rst") THEN SubSeq(path, 1, Len(path) - 4)
    ELSE path

\* the directory of a file
Dirname(path) == SubSeq(path, 1, RFind(path, "/", Len(path)) - 1)

\* the os.walk of analyze_toctrees: all_docs
WalkDocs(t, dir) ==
    {RelativeTo(t[i].path, dir) :
        i \in {k \in 1..Len(t) :
                 /\ StartsWith(t[k].path, dir \o "/")
                 /\ (EndsWith(t[k].path, ".md") \/ EndsWith(t[k].path, ".rst"))
                 /\ ~ is_excluded(Dirname(t[k].path))}}

\* TocTreeManager(docs_dir); the manifest takes no part in the analysis
TocTreeManager(t, dir) ==
    [docs_dir |-> dir,
     index_file |-> IF ~ Exists(t, Join(dir, "index.rst")) /\ Exists(t, Join(dir, "index.md"))
                    THEN Join(dir, "index.md") ELSE Join(dir, "index.rst"),
     toctrees |-> <<>>, referenced_docs |-> {}, orphaned_docs |-> {},
     duplicate_references |-> <<>>, raised |-> FALSE]

\* analyze_toctrees; open and read are not guarded
analyze_toctrees(self, t) ==
    IF ~ Exists(t, self.index_file) THEN self
    ELSE IF ~ CanRead(t, self.index_file) THEN [self EXCEPT !.raised = TRUE]
    ELSE LET tracked(c) == TrackToctrees(self, ToctreeMatches(c, 1), 1)
             done(s)    == [s EXCEPT !.orphaned_docs =
                               {strip_extension(d) : d \in WalkDocs(t, self.docs_dir)}
                                   \ {strip_extension(d) : d \in s.referenced_docs}]
         IN  The({done(s) : s \in {tracked(c) : c \in {FileAt(t, self.index_file).content}}})

\* re.sub(rf'(:caption:\s*{toc_key}.*?\n\s*)({doc})', r'\1', content,
\* flags=re.DOTALL) from position i on
RECURSIVE RemoveReference(_, _, _, _)
RemoveReference(content, toc_key, doc, i) ==
    LET c     == FindFrom(content, ":caption:", i)
        k     == SkipSpace(content, c + 9)
        hits  == {j \in (k + Len(toc_key))..Len(content) :
                     /\ Ch(content, j) = "\n"
                     /\ StartsWith(From(content, SkipSpace(content, j + 1)), doc)}
        j     == CHOOSE x \in hits : \A y \in hits : x <= y
        d     == SkipSpace(content, j + 1)
    IN  IF c = 0 THEN From(content, i)
        ELSE IF ~ StartsWith(From(content, k), toc_key) \/ hits = {}
             THEN SubSeq(content, i, c) \o RemoveReference(content, toc_key, doc, c + 1)
        ELSE SubSeq(content, i, d - 1) \o RemoveReference(content, toc_key, doc, d + Len(doc))

\* the loop of fix_toctrees over the positions of one duplicated document
RECURSIVE RemoveAt(_, _, _, _)
RemoveAt(content, doc, positions, i) ==
    IF i > Len(positions) THEN content
    ELSE RemoveAt(RemoveReference(content, positions[i][2], doc, 1), doc, positions, i + 1)

\* the loop of fix_toctrees over duplicate_references
RECURSIVE RemoveDuplicates(_, _, _)
RemoveDuplicates(content, duplicate_references, i) ==
    IF i > Len(duplicate_references) THEN content
    ELSE RemoveDuplicates(
             RemoveAt(content, duplicate_references[i].key,
                      duplicate_references[i].value, 1),
             duplicate_references, i + 1)

\* "\n".join(f"   {doc}" for doc in docs)
RECURSIVE OrphanEntries(_)
OrphanEntries(docs) ==
    IF docs = <<>> THEN ""
    ELSE "   " \o docs[1] \o (IF Len(docs) = 1 THEN "" ELSE "\n" \o OrphanEntries(Tail(docs)))

\* fix_toctrees: the tree it leaves, and whether it raised; the last of no
\* toctree match is an IndexError
fix_toctrees(self, t) ==
    IF ~ Exists(t, self.index_file) THEN [tree |-> t, raised |-> FALSE]
    ELSE IF ~ CanRead(t, self.index_file) THEN [tree |-> t, raised |-> TRUE]
    ELSE LET deduped(c) == RemoveDuplicates(c, self.duplicate_references, 1)
             added(c)   ==
                 LET matches == ToctreeMatches(c, 1)
                     end     == matches[Len(matches)].end
                 IN  IF self.orphaned_docs = {} THEN [tree |-> WriteText(t, self.index_file, c),
                                                      raised |-> FALSE]
                     ELSE IF matches = <<>> THEN [tree |-> t, raised |-> TRUE]
                     ELSE [tree |-> WriteText(t, self.index_file,
                                       SubSeq(c, 1, end) \o "\n"
                                           \o OrphanEntries(Sorted(self.orphaned_docs))
                                           \o From(c, end + 1)),
                           raised |-> FALSE]
         IN  The({added(c) : c \in {deduped(c0) : c0 \in {FileAt(t, self.index_file).content}}})

\* the most TocTreeManager runs over one tree
MaxRuns == 2

\* the index files of a documentation directory
IndexPool ==
    <<File("/r/docs/index.rst",
           ".. toctree::\n   :caption: A\n   intro\n   guide\n\n"
               \o ".. toctree::\n   :caption: B\n   guide\n   api\n\n"),
      File("/r/docs/index.rst",
           ".. toctree::\n   :caption: A\n   guide_api\n   guide\n\n"
               \o ".. toctree::\n   :caption: B\n   guide\n\n"
               \o ".. toctree::\n   :caption: C\n   guide\n   index\n\n"),
      File("/r/docs/index.rst",
           ".. toctree::\n   guide\n\n.. toctree::\n   :caption: B\n   guide\n   index\n\n"),
      File("/r/docs/index.rst",
           ".. toctree::\n   :maxdepth: 2\n   :caption: A\n\n   intro\n   guide\n\n"),
      File("/r/docs/index.rst", "Welcome\n=======\n"),
      File("/r/docs/index.md",
           Fence \o "{toctree}\n   :caption: A\n   guide\n   index\n\n" \o Fence \o "\n"
               \o Fence \o "{toctree}\n   :caption: B\n   guide\n\n" \o Fence \o "\n"),
      Unreadable("/r/docs/index.rst")>>

\* the other files of the directory
PagePool ==
    <<File("/r/docs/guide.rst", "Guide\n=====\n"),
      File("/r/docs/intro.md", "# Intro\n"),
      File("/r/docs/api.rst", "API\n===\n"),
      File("/r/docs/_build/out.rst", "Out\n===\n"),
      File("/r/docs/notes.txt", "notes")>>

\* at most one index file, and pages
ManagerTrees ==
    {PickFrom(IndexPool, I) \o PickFrom(PagePool, S) :
        I \in {X \in SUBSET (1..Len(IndexPool)) : Cardinality(X) <= 1},
        S \in {X \in SUBSET (1..Len(PagePool)) : Cardinality(X) < MaxFiles}}

ManagerInit ==
    /\ DiscoveryIdle
    /\ tree \in ManagerTrees
    /\ workflow = NotStarted
    /\ analyzer = NotStarted
    /\ fixer = NotStarted
    /\ manager = NotStarted
    /\ resolver = NotStarted
    /\ command = NotStarted

\* manager = TocTreeManager(docs_dir), in a new run of the script
NewTocTreeManager ==
    /\ manager.pc \in {"idle", "fixed"}
    /\ (IF manager.pc = "idle" THEN 0 ELSE manager.runs) < MaxRuns
    /\ manager' = [pc |-> "new",
                   runs |-> (IF manager.pc = "idle" THEN 0 ELSE manager.runs) + 1,
                   self |-> TocTreeManager(tree, "/r/docs")]
    /\ UNCHANGED <<discovery, workflow, analyzer, fixer, resolver, command>>

\* manager.analyze_toctrees()
AnalyzeToctrees ==
    /\ manager.pc = "new"
    /\ \E self \in {analyze_toctrees(manager.self, tree)} :
          manager' = [manager EXCEPT !.pc = IF self.raised THEN "raised" ELSE "analyzed",
                                     !.self = self]
    /\ UNCHANGED <<discovery, workflow, analyzer, fixer, resolver, command>>

\* manager.fix_toctrees()
FixToctrees ==
    /\ manager.pc = "analyzed"
    /\ \E r \in {fix_toctrees(manager.self, tree)} :
          /\ tree' = r.tree
          /\ manager' = [manager EXCEPT !.pc = IF r.raised THEN "raised" ELSE "fixed",
                                        !.self.raised = r.raised]
    /\ UNCHANGED <<repo_root, docs_dir, doc_structure, documents, orphaned_documents,
                   tracked_documents, file_content_cache, toc, analysed, metadata, pc,
                   last, workflow, analyzer, fixer, resolver, command>>

ManagerNext == NewTocTreeManager \/ AnalyzeToctrees \/ FixToctrees

ManagerSpec == ManagerInit /\ [][ManagerNext]_vars

\* the toctrees of the index file as it is now
ToctreesNow == analyze_toctrees(TocTreeManager(tree, "/r/docs"), tree).toctrees

\* the keys of the toctrees of d that list doc, in the order of the file
Homes(d, doc) ==
    LET holding == SelectSeq(d, LAMBDA x : doc \in Range(x.value))
    IN  [i \in 1..Len(holding) |-> holding[i].key]

\* C25: after analyze_toctrees and fix_toctrees, a document that the analysis
\* found in several toctrees is still referenced in the first of them and in
\* no other.
C25_FirstToctreeKeeps ==
    (manager.pc = "fixed" /\ manager.runs = 1) =>
        \A doc \in Keys(manager.self.duplicate_references) :
            Homes(ToctreesNow, doc) = <<Homes(manager.self.toctrees, doc)[1]>>

(***************************************************************************)
(* autoapi_fixer.py: class AutoAPIFixer                                    *)
(***************************************************************************)
\* "\n".join(lines)
RECURSIVE JoinLines(_)
JoinLines(lines) ==
    IF lines = <<>> THEN ""
    ELSE IF Len(lines) = 1 THEN lines[1]
    ELSE lines[1] \o "\n" \o JoinLines(Tail(lines))

\* the least number of a set of positions, 0 for the empty set
FirstOf(S) ==
    The({IF T = {} THEN 0 ELSE CHOOSE x \in T : \A y \in T : x <= y : T \in {S}})

\* s.replace(a, b) for strings a, b: the occurrences of a from the left
RECURSIVE ReplaceAll(_, _, _)
ReplaceAll(s, a, b) ==
    LET rest(j) == IF j = 0 THEN s
                   ELSE SubSeq(s, 1, j - 1) \o b \o ReplaceAll(From(s, j + Len(a)), a, b)
    IN  The({rest(j) : j \in {FindFrom(s, a, 1)}})

\* [a-z]
LowerChars == {Ch(LowerLetters, i) : i \in 1..26}

\* \w, [A-Za-z0-9_]
WordChars == EntryChars \ {"/", ".", "-"}

\* the first position >= i of s that holds no character of cs
RECURSIVE SkipChars(_, _, _)
SkipChars(s, i, cs) ==
    IF i <= Len(s) /\ Ch(s, i) \in cs THEN SkipChars(s, i + 1, cs) ELSE i

\* re.match(r'^\.\. py:[a-z]+:: (.+?)$', line): whether it matches, and
\* match.group(1).strip()
PyDirective(line) ==
    LET parsed(a) ==
            IF /\ a > 7
               /\ StartsWith(From(line, a), ":: ")
               /\ Len(line) >= a + 3
            THEN [match |-> TRUE, obj_name |-> Strip(From(line, a + 3))]
            ELSE [match |-> FALSE, obj_name |-> ""]
    IN  IF StartsWith(line, ".. py:")
        THEN The({parsed(a) : a \in {SkipChars(line, 7, LowerChars)}})
        ELSE [match |-> FALSE, obj_name |-> ""]

\* every directive without ':noindex:' is marked
NeedsNoindex_Every(count, line) == ~ Contains(line, ":noindex:")

\* directive_counts[obj_name] > 1 and ':noindex:' not in line
NeedsNoindex(count, line) == count > 1 /\ ~ Contains(line, ":noindex:")

\* the loop of fix_duplicate_descriptions over the lines from i on
RECURSIVE MarkLines(_, _, _)
MarkLines(lines, i, directive_counts) ==
    LET count(d)  == (IF d.obj_name \in DOMAIN directive_counts
                      THEN directive_counts[d.obj_name] ELSE 0) + 1
        marked(d) ==
            IF d.match
            THEN <<IF NeedsNoindex(count(d), lines[i])
                   THEN lines[i] \o "\n   :noindex:" ELSE lines[i]>>
                     \o MarkLines(lines, i + 1, (d.obj_name :> count(d)) @@ directive_counts)
            ELSE <<lines[i]>> \o MarkLines(lines, i + 1, directive_counts)
    IN  IF i > Len(lines) THEN <<>>
        ELSE The({marked(d) : d \in {PyDirective(lines[i])}})

fix_duplicate_descriptions(content) ==
    The({JoinLines(MarkLines(lines, 1, [x \in {} |-> 0])) :
             lines \in {Split(content, "\n")}})

\* the longest text at position i of s made of word characters, at least one,
\* and then 'Error' or 'Exception': [A-Za-z0-9_]+(?:Error|Exception), or ""
ExceptionNameAt(s, i) ==
    LET ends(b)   == {e \in (i + 5)..(b - 1) :
                         \/ (e - 4 > i /\ SubSeq(s, e - 4, e) = "Error")
                         \/ (e - 8 > i /\ SubSeq(s, e - 8, e) = "Exception")}
        longest(E) == IF E = {} THEN ""
                      ELSE SubSeq(s, i, CHOOSE e \in E : \A x \in E : x <= e)
    IN  The({longest(E) : E \in {ends(b) : b \in {SkipChars(s, i, WordChars)}}})

\* the names that re.finditer(r'^\.\. py:(?:class|exception):: ([A-Za-z0-9_]+
\* (?:Error|Exception))', content, re.MULTILINE) yields
ExceptionsIn(content) ==
    LET name(l) == IF StartsWith(l, ".. py:class:: ") THEN ExceptionNameAt(l, 15)
                   ELSE IF StartsWith(l, ".. py:exception:: ") THEN ExceptionNameAt(l, 19)
                   ELSE ""
    IN  {name(l) : l \in Range(Split(content, "\n"))} \ {""}

\* discover_exceptions over the RST files from i on; a file that cannot be
\* read is logged
RECURSIVE discover_exceptions(_, _, _, _)
discover_exceptions(exceptions_list, t, paths, i) ==
    IF i > Len(paths) THEN exceptions_list
    ELSE discover_exceptions(
             IF CanRead(t, paths[i])
             THEN exceptions_list \cup ExceptionsIn(FileAt(t, paths[i]).content)
             ELSE exceptions_list,
             t, paths, i + 1)

\* [a-zA-Z0-9_.]
DottedChars == WordChars \cup {"."}

\* group 1 of the first match of r':(?:class|exc):`([a-zA-Z0-9_.]+)\.
\* ([A-Za-z0-9_]+(?:Error|Exception))`' from position i on, "" without match
RECURSIVE QualifiedModule(_, _)
QualifiedModule(content, i) ==
    LET first(c, x) == IF c = 0 THEN x ELSE IF x = 0 THEN c ELSE IF c < x THEN c ELSE x
        width(role) == IF SubSeq(content, role, role + 2) = ":cl" THEN 8 ELSE 6
        group(a, b, dot) ==
            IF /\ dot > a
               /\ Ch(content, b) = Backtick
               /\ dot + 1 <= b - 1
               /\ ExceptionNameAt(SubSeq(content, dot + 1, b - 1), 1)
                      = SubSeq(content, dot + 1, b - 1)
            THEN SubSeq(content, a, dot - 1)
            ELSE QualifiedModule(content, a)
        split(a, b) == The({group(a, b, dot) :
                                dot \in {RFind(SubSeq(content, 1, b - 1), ".", b - 1)}})
        name(role)  == IF role = 0 THEN ""
                       ELSE The({split(role + width(role), b) :
                                     b \in {SkipChars(content, role + width(role),
                                                      DottedChars)}})
    IN  The({name(role) :
                 role \in {first(FindFrom(content, ":class:" \o Backtick, i),
                                 FindFrom(content, ":exc:" \o Backtick, i))}})

\* re.sub(rf':raises\s+({exception}):', f':raises {module_prefix}\\1:', s)
RECURSIVE FixRaises(_, _, _)
FixRaises(s, exception, module_prefix) ==
    LET fixed(r, a) ==
            IF a > r + 7 /\ StartsWith(From(s, a), exception \o ":")
            THEN SubSeq(s, 1, r + 6) \o " " \o module_prefix \o exception \o ":"
                     \o FixRaises(From(s, a + Len(exception) + 1), exception, module_prefix)
            ELSE SubSeq(s, 1, r) \o FixRaises(From(s, r + 1), exception, module_prefix)
        from(r) == IF r = 0 THEN s
                   ELSE The({fixed(r, a) : a \in {SkipSpace(s, r + 7)}})
    IN  The({from(r) : r \in {FindFrom(s, ":raises", 1)}})

\* re.sub(rf'([^\w.])({exception})([^\w`])', f'\\1{module_prefix}\\2\\3', s)
RECURSIVE FixBare(_, _, _)
FixBare(s, exception, module_prefix) ==
    LET hit(p) == /\ Ch(s, p) \notin DottedChars
                  /\ SubSeq(s, p + 1, p + Len(exception)) = exception
                  /\ Ch(s, p + Len(exception) + 1) \notin WordChars \cup {Backtick}
        fixed(p) ==
            IF p = 0 THEN s
            ELSE SubSeq(s, 1, p) \o module_prefix
                     \o SubSeq(s, p + 1, p + Len(exception) + 1)
                     \o FixBare(From(s, p + Len(exception) + 2), exception, module_prefix)
    IN  The({fixed(p) : p \in {FirstOf({x \in 1..(Len(s) - Len(exception) - 1) : hit(x)})}})

\* the three substitutions of fix_cross_references for one exception
FixReferences(content, exception, module_prefix) ==
    LET inline(qualified) ==
            ReplaceAll(
                ReplaceAll(content, ":class:" \o Backtick \o exception \o Backtick, qualified),
                ":exc:" \o Backtick \o exception \o Backtick, qualified)
    IN  FixBare(FixRaises(inline(":class:" \o Backtick \o module_prefix \o exception
                                     \o Backtick),
                          exception, module_prefix),
                exception, module_prefix)

\* the loop of fix_cross_references over the exceptions
RECURSIVE FixAllReferences(_, _, _, _)
FixAllReferences(content, exceptions, module_prefix, i) ==
    IF i > Len(exceptions) THEN content
    ELSE FixAllReferences(FixReferences(content, exceptions[i], module_prefix),
                          exceptions, module_prefix, i + 1)

\* fix_cross_references; the exceptions are taken in sorted order
fix_cross_references(content, exceptions_list) ==
    LET prefix(found) == IF found = "" THEN "my_project.exceptions." ELSE found \o "."
    IN  IF exceptions_list = {} THEN content
        ELSE The({FixAllReferences(content, Sorted(exceptions_list), prefix(found), 1) :
                      found \in {QualifiedModule(content, 1)}})

\* the first loop of fix_inline_literals, for one line
CloseLiteral(line) ==
    LET closed(first) ==
            IF Contains(first, ":math:" \o Backtick) /\ ~ EndsWith(first, Backtick)
            THEN first \o Backtick ELSE first
    IN  IF Count(line, Backtick) % 2 = 1
        THEN closed(IF RFind(line, Backtick, Len(line)) = FindFrom(line, Backtick, 1)
                    THEN line \o Backtick ELSE line)
        ELSE line

\* the second loop of fix_inline_literals over the lines from i on
RECURSIVE MergeSpans(_, _)
MergeSpans(lines, i) ==
    IF i >= Len(lines) THEN lines
    ELSE IF /\ Count(lines[i], Backtick) % 2 = 1
            /\ Count(lines[i + 1], Backtick) % 2 = 1
            /\ EndsWith(lines[i], Backtick)
            /\ StartsWith(lines[i + 1], Backtick)
         THEN MergeSpans([lines EXCEPT ![i] = SubSeq(@, 1, Len(@) - 1),
                                       ![i + 1] = From(@, 2)], i + 1)
    ELSE MergeSpans(lines, i + 1)

fix_inline_literals(content) ==
    The({JoinLines(MergeSpans([i \in 1..Len(lines) |-> CloseLiteral(lines[i])], 1)) :
             lines \in {Split(content, "\n")}})

\* the match of r'(^\s+)(\S.*?)\n\s{4,}(\S)' (re.MULTILINE) that starts at p:
\* white space from a line start up to a, a line up to e, and white space of
\* four characters or more up to b
IndentMatch(s, p) ==
    LET match(a, e, b) ==
            [ok |-> /\ a <= Len(s) /\ e <= Len(s)
                    /\ b - (e + 1) >= 4 /\ b <= Len(s),
             a |-> a, e |-> e, b |-> b]
        line(a, e) == The({match(a, e, b) : b \in {SkipSpace(s, e + 1)}})
        text(a)    == The({line(a, e) : e \in {LineEnd(s, a)}})
    IN  IF (p = 1 \/ Ch(s, p - 1) = "\n") /\ IsSpace(Ch(s, p))
        THEN The({text(a) : a \in {SkipSpace(s, p)}})
        ELSE [ok |-> FALSE, a |-> p, e |-> p, b |-> p]

\* re.sub(r'(^\s+)(\S.*?)\n\s{4,}(\S)', r'\1\2\n\1    \3', s, flags=re.MULTILINE)
\* from position i on
RECURSIVE FixIndent(_, _)
FixIndent(s, i) ==
    LET fixed(p, m) ==
            SubSeq(s, i, m.a - 1) \o SubSeq(s, m.a, m.e - 1) \o "\n"
                \o SubSeq(s, p, m.a - 1) \o "    " \o Ch(s, m.b)
                \o FixIndent(s, m.b + 1)
        from(p) == IF p = 0 THEN From(s, i)
                   ELSE The({fixed(p, m) : m \in {IndentMatch(s, p)}})
    IN  The({from(p) : p \in {FirstOf({x \in i..Len(s) : IndentMatch(s, x).ok})}})

\* the loop of fix_unexpected_indentation over the lines from i on
RECURSIVE FixExamples(_, _, _, _)
FixExamples(lines, i, in_example, in_code_block) ==
    LET line   == lines[i]
        spacer == IF i + 1 <= Len(lines) /\ Strip(lines[i + 1]) # ""
                  THEN <<"">> ELSE <<>>
        indent == Len(line) - Len(LStrip(line))
    IN  IF i > Len(lines) THEN <<>>
        ELSE IF Contains(line, "Example") /\ Contains(line, ":")
        THEN <<line>> \o spacer \o FixExamples(lines, i + 1, TRUE, in_code_block)
        ELSE IF in_example /\ Strip(line) = "::"
        THEN <<line>> \o spacer \o FixExamples(lines, i + 1, in_example, TRUE)
        ELSE IF in_code_block /\ Strip(line) # "" /\ ~ StartsWith(line, "    ")
        THEN <<line>> \o FixExamples(lines, i + 1, FALSE, FALSE)
        ELSE IF in_code_block /\ Strip(line) # "" /\ 0 < indent /\ indent < 4
        THEN <<"    " \o LStrip(line)>>
                 \o FixExamples(lines, i + 1, in_example, in_code_block)
        ELSE <<line>> \o FixExamples(lines, i + 1, in_example, in_code_block)

fix_unexpected_indentation(content) ==
    The({JoinLines(FixExamples(lines, 1, FALSE, FALSE)) :
             lines \in {Split(FixIndent(content, 1), "\n")}})

\* the match of r'(\n\s+[^\s].*\n)([^\s])' that starts at j: a line break,
\* white space up to a, a line up to e, and a character other than white space
QuoteMatch(s, j) ==
    LET match(a, e) ==
            [ok |-> a <= Len(s) /\ e < Len(s) /\ ~ IsSpace(Ch(s, e + 1)), e |-> e]
        text(a) == The({match(a, e) : e \in {LineEnd(s, a)}})
    IN  IF Ch(s, j) = "\n" /\ j < Len(s) /\ IsSpace(Ch(s, j + 1))
        THEN The({text(a) : a \in {SkipSpace(s, j + 1)}})
        ELSE [ok |-> FALSE, e |-> j]

\* re.sub(r'(\n\s+[^\s].*\n)([^\s])', r'\1\n\2', s) from position i on
RECURSIVE FixQuotes(_, _)
FixQuotes(s, i) ==
    LET fixed(e) == SubSeq(s, i, e) \o "\n" \o Ch(s, e + 1) \o FixQuotes(s, e + 2)
        from(j)  == IF j = 0 THEN From(s, i)
                    ELSE The({fixed(m.e) : m \in {QuoteMatch(s, j)}})
    IN  The({from(j) : j \in {FirstOf({x \in i..Len(s) : QuoteMatch(s, x).ok})}})

\* re.sub(r'([^\n])::\n(\S)', r'\1::\n\n\2', s) from position i on
RECURSIVE FixLiteralBlocks(_, _)
FixLiteralBlocks(s, i) ==
    LET hit(p)   == /\ Ch(s, p) # "\n"
                    /\ SubSeq(s, p + 1, p + 3) = "::\n"
                    /\ ~ IsSpace(Ch(s, p + 4))
        fixed(p) == IF p = 0 THEN From(s, i)
                    ELSE SubSeq(s, i, p + 3) \o "\n" \o Ch(s, p + 4)
                             \o FixLiteralBlocks(s, p + 5)
    IN  The({fixed(p) : p \in {FirstOf({x \in i..(Len(s) - 4) : hit(x)})}})

fix_block_quotes(content) == FixLiteralBlocks(FixQuotes(content, 1), 1)

\* what fix_file makes of a content without duplicate descriptions: the four
\* other fixes, one after the other
FixedContent(deduplicated, exceptions_list) ==
    fix_block_quotes(fix_unexpected_indentation(fix_inline_literals(
        fix_cross_references(deduplicated, exceptions_list))))

\* AutoAPIFixer(docs_dir)
AutoAPIFixer(dir) ==
    [docs_dir |-> dir, autoapi_dir |-> Join(dir, "autoapi"),
     fixed_count |-> 0, exceptions_list |-> {}]

\* fix_file(file_path): what it read and computed, the tree it leaves, and
\* what it returns; a file that cannot be read is logged and left alone
fix_file(self, t, file_path) ==
    IF ~ CanRead(t, file_path)
    THEN [path |-> file_path, original |-> "", deduplicated |-> "", new_content |-> "",
          tree |-> t, returned |-> FALSE]
    ELSE LET original_content == FileAt(t, file_path).content
             made(deduplicated) ==
                 The({[path |-> file_path, original |-> original_content,
                       deduplicated |-> deduplicated,
                       new_content |-> new_content,
                       tree |-> IF new_content # original_content
                                THEN WriteText(t, file_path, new_content) ELSE t,
                       returned |-> new_content # original_content] :
                          new_content \in {FixedContent(deduplicated, self.exceptions_list)}})
         IN  The({made(d) : d \in {fix_duplicate_descriptions(original_content)}})

\* the loop of fix_all_files over the RST files from i on: the fixer, the tree
\* and the files handled so far
RECURSIVE FixFiles(_, _, _, _, _)
FixFiles(self, t, paths, i, log) ==
    IF i > Len(paths) THEN [self |-> self, tree |-> t, log |-> log]
    ELSE LET f == The({fix_file(self, x, paths[i]) : x \in {t}})
         IN  FixFiles(IF f.returned THEN [self EXCEPT !.fixed_count = @ + 1] ELSE self,
                      f.tree, paths, i + 1,
                      Append(log, [path |-> f.path, original |-> f.original,
                                   deduplicated |-> f.deduplicated,
                                   new_content |-> f.new_content,
                                   returned |-> f.returned]))

\* fix_all_files(): the fixer, the tree, the files handled and the value returned
fix_all_files(self, t) ==
    IF ~ Exists(t, self.autoapi_dir)
    THEN [self |-> self, tree |-> t, log |-> <<>>, returned |-> 0]
    ELSE LET paths == Glob(t, self.autoapi_dir, ".rst")
             found == [self EXCEPT !.exceptions_list =
                                       discover_exceptions(@, t, paths, 1)]
             done  == The({FixFiles(s, t, paths, 1, <<>>) : s \in {found}})
         IN  [self |-> done.self, tree |-> done.tree, log |-> done.log,
              returned |-> done.self.fixed_count]

MaxLines == 3

\* lines of a generated RST file
LinePool ==
    {".. py:function:: foo", ".. py:class:: Bar", "   :noindex:",
     "   raises ParseError here"}

\* the texts of 1..n lines
RECURSIVE Texts(_)
Texts(n) ==
    IF n = 1 THEN LinePool
    ELSE LET shorter == Texts(n - 1)
         IN  shorter \cup {s \o "\n" \o l : s \in shorter, l \in LinePool}

\* what may lie next to the generated module page
Companions ==
    {<<>>,
     <<File("/r/docs/autoapi/pkg/errors.rst",
            ".. py:exception:: ParseError\n\n   See :exc:" \o Backtick \o "ParseError"
                \o Backtick \o " and :math:" \o Backtick \o "x\n")>>,
     <<Unreadable("/r/docs/autoapi/locked.rst"),
       File("/r/docs/autoapi/notes.txt", ".. py:function:: foo\n.. py:function:: foo")>>}

\* a module page and what lies next to it, or no AutoAPI directory at all
FixerTrees ==
    {<<File("/r/docs/autoapi/mod.rst", text)>> \o others :
         text \in Texts(MaxLines), others \in Companions}
        \cup {<<File("/r/docs/index.rst", ".. py:function:: foo\n.. py:function:: foo")>>}

FixerInit ==
    /\ DiscoveryIdle
    /\ tree \in FixerTrees
    /\ workflow = NotStarted
    /\ analyzer = NotStarted
    /\ fixer = NotStarted
    /\ manager = NotStarted
    /\ resolver = NotStarted
    /\ command = NotStarted

\* the calls of fix_all_files made so far, over all the fixers
FixerCalls == IF fixer.pc = "idle" THEN <<>> ELSE fixer.calls

\* fixer = AutoAPIFixer(docs_dir)
NewAutoAPIFixer ==
    /\ fixer.pc \in {"idle", "fixed"}
    /\ Len(FixerCalls) < MaxRuns
    /\ fixer' = [pc |-> "new", self |-> AutoAPIFixer(docs_dir), calls |-> FixerCalls]
    /\ UNCHANGED <<discovery, workflow, analyzer, manager, resolver, command>>

\* fixer.fix_all_files()
FixAllFiles ==
    /\ fixer.pc \in {"new", "fixed"}
    /\ Len(FixerCalls) < MaxRuns
    /\ \E r \in {fix_all_files(fixer.self, tree)} :
           /\ tree' = r.tree
           /\ fixer' = [pc |-> "fixed", self |-> r.self,
                        calls |-> Append(fixer.calls,
                                         [log |-> r.log, returned |-> r.returned])]
    /\ UNCHANGED <<repo_root, docs_dir, doc_structure, documents, orphaned_documents,
                   tracked_documents, file_content_cache, toc, analysed, metadata, pc, last,
                   workflow, analyzer, manager, resolver, command>>

FixerNext == NewAutoAPIFixer \/ FixAllFiles

FixerSpec == FixerInit /\ [][FixerNext]_vars

\* whether the directive in line i of lines describes an object that a
\* directive in an earlier line describes
DescribedBefore(lines, i) ==
    \E j \in 1..(i - 1) :
        /\ PyDirective(lines[j]).match
        /\ PyDirective(lines[j]).obj_name = PyDirective(lines[i]).obj_name

\* the directives of a content that repeat an object
LaterDirectives(content) ==
    LET lines == Split(content, "\n")
    IN  {i \in 1..Len(lines) : PyDirective(lines[i]).match /\ DescribedBefore(lines, i)}

\* the content with ':noindex:' below each of its directives that repeats an
\* object and does not carry ':noindex:' itself, and nothing else changed
MarkedFromSecond(content) ==
    LET lines == Split(content, "\n")
    IN  JoinLines([i \in 1..Len(lines) |->
                      IF i \in LaterDirectives(content) /\ ~ Contains(lines[i], ":noindex:")
                      THEN lines[i] \o "\n   :noindex:" ELSE lines[i]])

\* the files the calls of fix_all_files have handled
FilesHandled ==
    UNION {Range(FixerCalls[n].log) : n \in 1..Len(FixerCalls)}

\* C24: fix_duplicate_descriptions leaves the first '.. py:*:: <object>'
\* directive of each object name of a content as it is, puts ':noindex:' below
\* every later directive of that object name, and never marks the directive of
\* an object name that occurs once: the content it returns is the content with
\* exactly the later directives marked.
C24_FirstKeptLaterMarked ==
    \A f \in FilesHandled : f.deduplicated = MarkedFromSecond(f.original)

\* a content with a repeated directive, which came out marked, and with the
\* directive of another object that occurs once, has been handled
C24_Witness ==
    \E f \in FilesHandled :
        /\ LaterDirectives(f.original) # {}
        /\ f.deduplicated # f.original
        /\ Contains(f.original, ".. py:class:: Bar")
        /\ Count(f.deduplicated, ":noindex:") = 1

\* the values the calls of fix_all_files returned, and the files each modified
Modified(n) == {f \in Range(FixerCalls[n].log) : f.returned}

\* C29: fixing is idempotent. A second run of fix_all_files over the files a
\* first run has fixed modifies no file, so that no directive gets a second
\* ':noindex:', and every call returns the number of files it modified.
C29_SecondRunIdle ==
    /\ \A n \in 1..Len(FixerCalls) :
           FixerCalls[n].returned = Cardinality(Modified(n))
    /\ \A n \in 2..Len(FixerCalls) :
           \A f \in Range(FixerCalls[n].log) :
               /\ ~ f.returned
               /\ Count(f.new_content, ":noindex:") = Count(f.original, ":noindex:")

(***************************************************************************)
(* add_noindex.py: add_noindex_directives, and fix_docstrings.py:          *)
(* add_noindex_to_duplicates                                               *)
(***************************************************************************)
\* whether the text lit stands at position p of s
StartsAt(s, p, lit) == p + Len(lit) - 1 <= Len(s) /\ SubSeq(s, p, p + Len(lit) - 1) = lit

\* the first position >= i of s that holds a character of stops, or Len(s) + 1
RECURSIVE SkipUntil(_, _, _)
SkipUntil(s, i, stops) ==
    IF i <= Len(s) /\ Ch(s, i) \notin stops THEN SkipUntil(s, i + 1, stops) ELSE i

\* [a-zA-Z0-9_\.\(\)]
CallChars == DottedChars \cup {"(", ")"}

\* the match at position p of s of a directive pattern: the lead, [a-z]+ (one
\* of kinds, when there are any), ':: ', a name of one or more of chars and,
\* with call, the parameters \([^)]*\). text is group 0
ObjectAt(s, p, pattern) ==
    LET none == [ok |-> FALSE, text |-> "", kind |-> "", name |-> "", end |-> p]
        k    == p + Len(pattern.lead)
        found(a, b, c) ==
            IF b > a + 3 /\ (pattern.call => (StartsAt(s, b, "(") /\ c # 0))
            THEN [ok |-> TRUE,
                  text |-> SubSeq(s, p, IF pattern.call THEN c ELSE b - 1),
                  kind |-> SubSeq(s, k, a - 1),
                  name |-> SubSeq(s, a + 3, b - 1),
                  end |-> IF pattern.call THEN c + 1 ELSE b]
            ELSE none
        named(a) ==
            The({found(a, b, IF pattern.call THEN FindFrom(s, ")", b + 1) ELSE 0) :
                     b \in {SkipChars(s, a + 3, pattern.chars)}})
        kind(a) ==
            IF /\ a > k
               /\ StartsAt(s, a, ":: ")
               /\ (pattern.kinds = {} \/ SubSeq(s, k, a - 1) \in pattern.kinds)
            THEN named(a) ELSE none
    IN  IF StartsAt(s, p, pattern.lead)
        THEN The({kind(a) : a \in {SkipChars(s, k, LowerChars)}})
        ELSE none

\* re.finditer(pattern, s) from position i on; an anchored pattern starts
\* with '^' and is used with re.MULTILINE
RECURSIVE ObjectMatches(_, _, _)
ObjectMatches(s, i, pattern) ==
    LET from(p, m) ==
            IF m.ok /\ (pattern.anchored => (p = 1 \/ Ch(s, p - 1) = "\n"))
            THEN <<m>> \o ObjectMatches(s, m.end, pattern)
            ELSE ObjectMatches(s, p + 1, pattern)
        next(p) == IF p = 0 THEN <<>>
                   ELSE The({from(p, m) : m \in {ObjectAt(s, p, pattern)}})
    IN  The({next(p) : p \in {FindFrom(s, pattern.lead, i)}})

\* the patterns of add_noindex_directives; the third has one group, the
\* name, and its objects are taken as methods
DirectivePatterns ==
    <<[anchored |-> TRUE, lead |-> ".. py:", kinds |-> {}, chars |-> CallChars,
       call |-> FALSE],
      [anchored |-> TRUE, lead |-> ".. py:", kinds |-> {}, chars |-> DottedChars,
       call |-> FALSE],
      [anchored |-> TRUE, lead |-> ".. py:", kinds |-> {"method", "function"},
       chars |-> DottedChars, call |-> TRUE],
      [anchored |-> TRUE, lead |-> ".. auto", kinds |-> {}, chars |-> DottedChars,
       call |-> FALSE]>>

\* the patterns of add_noindex_to_duplicates
DuplicatePatterns ==
    <<[anchored |-> FALSE, lead |-> ".. py:", kinds |-> {}, chars |-> DottedChars,
       call |-> FALSE],
      [anchored |-> FALSE, lead |-> ".. py:", kinds |-> {"method", "function"},
       chars |-> DottedChars, call |-> TRUE],
      [anchored |-> FALSE, lead |-> ".. py:", kinds |-> {"attribute"},
       chars |-> DottedChars, call |-> FALSE]>>

\* the matches of the patterns in s, pattern after pattern
RECURSIVE AllMatches(_, _, _)
AllMatches(s, patterns, i) ==
    IF i > Len(patterns) THEN <<>>
    ELSE ObjectMatches(s, 1, patterns[i]) \o AllMatches(s, patterns, i + 1)

\* the priorities of add_noindex_directives, in the order of the dict
priorities(dir) ==
    <<[key |-> Join(dir, "api"), value |-> 100],
      [key |-> Join(dir, "api/ollama_forge"), value |-> 110],
      [key |-> Join(dir, "autoapi"), value |-> 50],
      [key |-> Join(dir, "autoapi/ollama_forge"), value |-> 40]>>

\* the priorities of add_noindex_to_duplicates, in the order of the dict
priority_dirs ==
    <<[key |-> "api", value |-> 100],
      [key |-> "api_docs", value |-> 90],
      [key |-> "autoapi", value |-> 10],
      [key |-> "autoapi/ollama_forge", value |-> 5]>>

\* the priority of the first key of the dict that occurs in the path of the
\* file, or the default
FilePriority(path, dict, default) ==
    LET hits == {i \in 1..Len(dict) : Contains(path, dict[i].key)}
    IN  IF hits = {} THEN default
        ELSE dict[CHOOSE i \in hits : \A j \in hits : i <= j].value

\* the name under which add_noindex_directives registers obj_name found in
\* the file at path
normalized_name(obj_name, path) ==
    LET parts  == Parts(path)
        idx    == CHOOSE i \in 1..Len(parts) :
                      parts[i] = "ollama_forge" /\ \A j \in 1..(i - 1) : parts[j] # "ollama_forge"
        module == parts[idx + 1]
    IN  IF /\ ~ StartsWith(obj_name, "ollama_forge.")
           /\ Contains(path, "ollama_forge")
           /\ Count(obj_name, ".") <= 1
           /\ "ollama_forge" \in Range(parts)
           /\ idx + 1 <= Len(parts)
           /\ module \notin {"api", "autoapi"}
           /\ ~ StartsWith(obj_name, module \o ".")
        THEN "ollama_forge." \o module \o "." \o obj_name
        ELSE obj_name

\* obj_name.split('(')[0]
BeforeCall(obj_name) ==
    LET j == FindFrom(obj_name, "(", 1)
    IN  IF j = 0 THEN obj_name ELSE SubSeq(obj_name, 1, j - 1)

\* the registry with the matches from i on of one file appended
RECURSIVE Register(_, _, _, _, _, _)
Register(registry, matches, i, path, file_priority, normalize) ==
    IF i > Len(matches) THEN registry
    ELSE LET obj_name == BeforeCall(matches[i].name)
             key      == IF normalize THEN normalized_name(obj_name, path) ELSE obj_name
         IN  Register(Extend(registry, key,
                             <<[file |-> path, directive |-> matches[i].text,
                                priority |-> file_priority]>>),
                      matches, i + 1, path, file_priority, normalize)

\* stage 1 of add_noindex_directives for the files of one directory from i
\* on; a file that cannot be read is logged
RECURSIVE ScanDirectives(_, _, _, _, _, _)
ScanDirectives(registry, t, paths, i, dir, dir_priority) ==
    IF i > Len(paths) THEN registry
    ELSE ScanDirectives(
             IF ~ CanRead(t, paths[i]) THEN registry
             ELSE Register(registry,
                           AllMatches(FileAt(t, paths[i]).content, DirectivePatterns, 1), 1,
                           paths[i], FilePriority(paths[i], priorities(dir), dir_priority),
                           TRUE),
             t, paths, i + 1, dir, dir_priority)

\* the first pass of add_noindex_to_duplicates for the files from i on
RECURSIVE ScanDuplicates(_, _, _, _)
ScanDuplicates(seen_objects, t, paths, i) ==
    IF i > Len(paths) THEN seen_objects
    ELSE ScanDuplicates(
             IF ~ CanRead(t, paths[i]) THEN seen_objects
             ELSE Register(seen_objects,
                           AllMatches(FileAt(t, paths[i]).content, DuplicatePatterns, 1), 1,
                           paths[i], FilePriority(paths[i], priority_dirs, 50), FALSE),
             t, paths, i + 1)

\* sorted(locations, key=lambda x: x[2], reverse=True); the sort is stable
RECURSIVE ByPriority(_)
ByPriority(locations) ==
    IF locations = <<>> THEN <<>>
    ELSE LET top     == CHOOSE v \in {l.priority : l \in Range(locations)} :
                            \A l \in Range(locations) : l.priority <= v
             first(l) == l.priority = top
             later(l) == l.priority # top
         IN  SelectSeq(locations, first) \o ByPriority(SelectSeq(locations, later))

\* the locations to mark: of every object with more than one location, all
\* but the first of the sorted locations
RECURSIVE ToMark(_, _)
ToMark(registry, i) ==
    IF i > Len(registry) THEN <<>>
    ELSE (IF Len(registry[i].value) > 1 THEN Tail(ByPriority(registry[i].value)) ELSE <<>>)
             \o ToMark(registry, i + 1)

\* the first match of (directive)\s*$ under re.MULTILINE from position i on:
\* where the directive starts and where the match ends; start is 0 when
\* there is none. The white space after the directive is taken up to the end
\* of the content or up to its last line break
RECURSIVE OptionPlace(_, _, _)
OptionPlace(s, directive, i) ==
    LET none == [start |-> 0, end |-> 0]
        upto(q, w, x) ==
            IF w > Len(s) THEN [start |-> q, end |-> Len(s) + 1]
            ELSE IF x >= q + Len(directive) THEN [start |-> q, end |-> x]
            ELSE OptionPlace(s, directive, q + 1)
        space(q, w) == The({upto(q, w, x) : x \in {RFind(s, "\n", w - 1)}})
        at(q) == IF q = 0 THEN none
                 ELSE The({space(q, w) : w \in {SkipSpace(s, q + Len(directive))}})
    IN  The({at(q) : q \in {FindFrom(s, directive, i)}})

\* re.sub(pattern, "\1\n   :noindex:", s, count=1, flags=re.MULTILINE)
AddOptionOnce(s, directive) ==
    LET put(m) == IF m.start = 0 THEN s
                  ELSE SubSeq(s, 1, m.start + Len(directive) - 1) \o "\n   :noindex:"
                           \o From(s, m.end)
    IN  The({put(m) : m \in {OptionPlace(s, directive, 1)}})

\* re.sub(pattern, "\1\n   :noindex:", s, flags=re.MULTILINE) from i on
RECURSIVE AddOptionAll(_, _, _)
AddOptionAll(s, directive, i) ==
    LET put(m) == IF m.start = 0 THEN From(s, i)
                  ELSE SubSeq(s, i, m.start + Len(directive) - 1) \o "\n   :noindex:"
                           \o AddOptionAll(s, directive, m.end)
    IN  The({put(m) : m \in {OptionPlace(s, directive, i)}})

\* stage 3 of add_noindex_directives for one location: the new content of
\* the file, or the content as it is
MarkedOnce(content, directive) ==
    LET snippet(pos) == SubSeq(content, pos, LineEnd(content, pos + Len(directive)) - 1)
        marked(pos)  == IF pos = 0 \/ Contains(snippet(pos), ":noindex:") THEN content
                        ELSE AddOptionOnce(content, directive)
    IN  The({marked(pos) : pos \in {FindFrom(content, directive, 1)}})

\* the second pass of add_noindex_to_duplicates for one instance
MarkedAll(content, directive) ==
    LET search_area(f) ==
            SubSeq(content, Max(0, f - 5) + 1, Min(Len(content), f + Len(directive) + 150))
        marked(f) == IF Contains(search_area(f), ":noindex:") THEN content
                     ELSE AddOptionAll(content, directive, 1)
    IN  The({marked(pos - 1) : pos \in {FindFrom(content, directive, 1)}})

\* the loop over the locations to mark from i on: the tree and the files
\* written, one entry for each write; all marks every match, as
\* add_noindex_to_duplicates does
RECURSIVE MarkLocations(_, _, _, _, _)
MarkLocations(t, locations, i, written, all) ==
    IF i > Len(locations) THEN [tree |-> t, written |-> written]
    ELSE IF ~ CanRead(t, locations[i].file)
         THEN MarkLocations(t, locations, i + 1, written, all)
    ELSE LET content == FileAt(t, locations[i].file).content
             go(new) == IF new = content
                        THEN MarkLocations(t, locations, i + 1, written, all)
                        ELSE MarkLocations(WriteText(t, locations[i].file, new), locations,
                                           i + 1, Append(written, locations[i].file), all)
         IN  The({go(new) : new \in {IF all THEN MarkedAll(content, locations[i].directive)
                                     ELSE MarkedOnce(content, locations[i].directive)}})

\* the greatest position in a..b of s that holds a character of cs, or 0
LastIn(s, a, b, cs) ==
    The({IF T = {} THEN 0 ELSE CHOOSE x \in T : \A y \in T : y <= x :
             T \in {{k \in a..b : Ch(s, k) \in cs}}})

\* (:(?:class|exc|meth|mod|obj):)
RoleMarkers == {":class:", ":exc:", ":meth:", ":mod:", ":obj:"}

\* where the match of ([^`\s][^`\n]+)(?=\s|\n|\)) that starts at g ends, or 0
RoleEnd(s, g) ==
    LET end(r) == IF r = g + 1 THEN 0
                  ELSE IF r <= Len(s) /\ Ch(s, r) = "\n" THEN r
                  ELSE LastIn(s, g + 2, r - 1, {" ", "\t", "\r", ")"})
    IN  IF g > Len(s) \/ Ch(s, g) = Backtick \/ IsSpace(Ch(s, g)) THEN 0
        ELSE The({end(r) : r \in {SkipUntil(s, g + 1, {Backtick, "\n"})}})

\* re.sub(r'(:(?:class|exc|meth|mod|obj):)([^`\s][^`\n]+)(?=\s|\n|\))',
\* r'\1`\2`', s) from position i on
RECURSIVE QuoteRoles(_, _)
QuoteRoles(s, i) ==
    LET group(p) == p + Len(CHOOSE m \in RoleMarkers : StartsAt(s, p, m))
        hit(p)   == /\ Ch(s, p) = ":"
                    /\ \E m \in RoleMarkers : StartsAt(s, p, m)
                    /\ RoleEnd(s, group(p)) # 0
        put(p, e) == SubSeq(s, i, group(p) - 1) \o Backtick \o SubSeq(s, group(p), e - 1)
                         \o Backtick \o QuoteRoles(s, e)
        from(p)  == IF p = 0 THEN From(s, i)
                    ELSE The({put(p, e) : e \in {RoleEnd(s, group(p))}})
    IN  The({from(p) : p \in {FirstOf({x \in i..Len(s) : hit(x)})}})

\* where the match of (`[^`\n]+)(?=\n|\)) that starts at p ends, or 0
TickEnd(s, p) ==
    LET end(r) == IF r = p + 1 THEN 0
                  ELSE IF r <= Len(s) /\ Ch(s, r) = "\n" THEN r
                  ELSE LastIn(s, p + 2, r - 1, {")"})
    IN  The({end(r) : r \in {SkipUntil(s, p + 1, {Backtick, "\n"})}})

\* re.sub(r'(`[^`\n]+)(?=\n|\))', r'\1`', s) from position i on
RECURSIVE CloseTicks(_, _)
CloseTicks(s, i) ==
    LET hit(p)   == Ch(s, p) = Backtick /\ TickEnd(s, p) # 0
        put(p, e) == SubSeq(s, i, e - 1) \o Backtick \o CloseTicks(s, e)
        from(p)  == IF p = 0 THEN From(s, i)
                    ELSE The({put(p, e) : e \in {TickEnd(s, p)}})
    IN  The({from(p) : p \in {FirstOf({x \in i..Len(s) : hit(x)})}})

\* where :py:[a-z]+:`[^`]+ followed by no backtick, started at j, ends, or 0
PyRoleEnd(s, j) ==
    LET end(u, r) == IF r > Len(s) THEN (IF r > u THEN r ELSE 0)
                     ELSE IF r - 1 > u THEN r - 1 ELSE 0
        name(a)   == IF a > j + 4 /\ StartsAt(s, a, ":" \o Backtick)
                     THEN The({end(a + 2, r) : r \in {SkipUntil(s, a + 2, {Backtick})}})
                     ELSE 0
    IN  IF StartsAt(s, j, ":py:")
        THEN The({name(a) : a \in {SkipChars(s, j + 4, LowerChars)}})
        ELSE 0

\* where the match of (Bases:.*?:py:[a-z]+:`[^`]+)(?!\`) that starts at p
\* ends, or 0
BasesEnd(s, p) ==
    LET first(j) == IF j = 0 THEN 0 ELSE PyRoleEnd(s, j)
    IN  IF StartsAt(s, p, "Bases:")
        THEN The({first(j) :
                      j \in {FirstOf({x \in (p + 6)..(LineEnd(s, p) - 1) :
                                          PyRoleEnd(s, x) # 0})}})
        ELSE 0

\* re.sub(r'(Bases:.*?:py:[a-z]+:`[^`]+)(?!\`)', r'\1`', s) from position i on
RECURSIVE CloseBases(_, _)
CloseBases(s, i) ==
    LET put(p, e) == SubSeq(s, i, e - 1) \o Backtick \o CloseBases(s, e)
        from(p)   == IF p = 0 THEN From(s, i)
                     ELSE The({put(p, e) : e \in {BasesEnd(s, p)}})
    IN  The({from(p) : p \in {FirstOf({x \in i..Len(s) : BasesEnd(s, x) # 0})}})

\* the three substitutions on the content of an exception file
updated_content(content) == CloseBases(CloseTicks(QuoteRoles(content, 1), 1), 1)

\* docs_dir.glob("**/exceptions/**/*.rst")
ExceptionsGlob(t, dir) ==
    LET match(f) ==
            /\ StartsWith(f.path, dir \o "/")
            /\ EndsWith(Name(f.path), ".rst")
            /\ "exceptions" \in Range(Split(RelativeTo(Dirname(f.path), dir), "/"))
    IN  PathsOf(SelectSeq(t, match))

\* the loop over the exception files from i on: the tree and the files written
RECURSIVE FixExceptionFiles(_, _, _, _)
FixExceptionFiles(t, paths, i, written) ==
    IF i > Len(paths) THEN [tree |-> t, written |-> written]
    ELSE IF ~ CanRead(t, paths[i]) THEN FixExceptionFiles(t, paths, i + 1, written)
    ELSE LET content == FileAt(t, paths[i]).content
             go(new) == IF new = content THEN FixExceptionFiles(t, paths, i + 1, written)
                        ELSE FixExceptionFiles(WriteText(t, paths[i], new), paths, i + 1,
                                               Append(written, paths[i]))
         IN  The({go(new) : new \in {updated_content(content)}})

\* add_noindex_directives(docs_dir): the tree it leaves and what it returns,
\* the number of files in modified_files
add_noindex_directives(t, dir) ==
    LET scan(d, registry, dir_priority) ==
            IF Exists(t, Join(dir, d))
            THEN ScanDirectives(registry, t, Glob(t, Join(dir, d), ".rst"), 1, dir,
                                dir_priority)
            ELSE registry
        exception_files(x) ==
            IF Glob(x, Join(dir, "autoapi/ollama_forge/exceptions"), ".rst") # <<>>
            THEN Glob(x, Join(dir, "autoapi/ollama_forge/exceptions"), ".rst")
            ELSE ExceptionsGlob(x, dir)
        fixed(m) ==
            The({[tree |-> f.tree, returned |-> Cardinality(Range(f.written))] :
                     f \in {FixExceptionFiles(m.tree, exception_files(m.tree), 1, m.written)}})
    IN  The({fixed(m) :
                 m \in {MarkLocations(t, ToMark(registry, 1), 1, <<>>, FALSE) :
                            registry \in {scan("api", scan("autoapi", <<>>, 50), 100)}}})

\* add_noindex_to_duplicates(directory): the tree it leaves and what it
\* returns, the number of writes
add_noindex_to_duplicates(t, directory) ==
    LET counted(m) == [tree |-> m.tree, returned |-> Len(m.written)]
    IN  The({counted(m) :
                 m \in {MarkLocations(t, ToMark(seen_objects, 1), 1, <<>>, TRUE) :
                            seen_objects \in {ScanDuplicates(<<>>, t,
                                                             Glob(t, directory, ".rst"), 1)}}})

\* RST files of a documentation tree, in traversal order
ResolverPool ==
    <<File("/r/docs/api/mod.rst", ".. py:function:: foo\n\n   Doc.\n"),
      File("/r/docs/autoapi/mod.rst", ".. py:function:: foo\n"),
      File("/r/docs/autoapi/pkg.rst", ".. py:class:: Bar\n.. py:function:: run(a, b)\n"),
      File("/r/docs/api/cls.rst", ".. py:class:: Bar\n   :noindex:\n"),
      File("/r/docs/guide/intro.rst", "Intro\n\n   .. py:attribute:: pkg.x\n"),
      File("/r/docs/autoapi/ollama_forge/core/base.rst", ".. autoclass:: Base\n"),
      File("/r/docs/api/ollama_forge/core.rst", ".. py:class:: core.Base\n"),
      File("/r/docs/autoapi/ollama_forge/exceptions/errors.rst",
           ".. py:exception:: ModelError\n\n   Bases: :py:class:" \o Backtick \o "Exception"
               \o Backtick \o "\n   See :class:ollama_forge.Base here\n"),
      File("/r/docs/exceptions/old.rst", Backtick \o "x (y)\n"),
      Unreadable("/r/docs/api/locked.rst"),
      File("/r/docs/api/notes.txt", ".. py:function:: foo\n")>>

ResolverTrees ==
    {PickFrom(ResolverPool, S) :
        S \in {X \in SUBSET (1..Len(ResolverPool)) : Cardinality(X) <= MaxFiles}}

ResolverInit ==
    /\ DiscoveryIdle
    /\ tree \in ResolverTrees
    /\ workflow = NotStarted
    /\ analyzer = NotStarted
    /\ fixer = NotStarted
    /\ manager = NotStarted
    /\ resolver = NotStarted
    /\ command = NotStarted

\* the runs of a resolver made so far
ResolverRuns == IF resolver.pc = "idle" THEN 0 ELSE resolver.runs

\* add_noindex_directives(docs_dir)
AddNoindexDirectives ==
    /\ ResolverRuns < MaxRuns
    /\ \E r \in {add_noindex_directives(tree, docs_dir)} :
           /\ tree' = r.tree
           /\ resolver' = [pc |-> "resolved", runs |-> ResolverRuns + 1,
                           function |-> "add_noindex_directives", before |-> tree,
                           returned |-> r.returned]
    /\ UNCHANGED <<repo_root, docs_dir, doc_structure, documents, orphaned_documents,
                   tracked_documents, file_content_cache, toc, analysed, metadata, pc, last,
                   workflow, analyzer, fixer, manager, command>>

\* add_noindex_to_duplicates(directory)
AddNoindexToDuplicates ==
    /\ ResolverRuns < MaxRuns
    /\ \E r \in {add_noindex_to_duplicates(tree, docs_dir)} :
           /\ tree' = r.tree
           /\ resolver' = [pc |-> "resolved", runs |-> ResolverRuns + 1,
                           function |-> "add_noindex_to_duplicates", before |-> tree,
                           returned |-> r.returned]
    /\ UNCHANGED <<repo_root, docs_dir, doc_structure, documents, orphaned_documents,
                   tracked_documents, file_content_cache, toc, analysed, metadata, pc, last,
                   workflow, analyzer, fixer, manager, command>>

ResolverNext == AddNoindexDirectives \/ AddNoindexToDuplicates

ResolverSpec == ResolverInit /\ [][ResolverNext]_vars

\* the files a resolver scans: the RST files below autoapi and api, or all
\* the RST files of the directory
Scanned(t, function) ==
    IF function = "add_noindex_directives"
    THEN Range(Glob(t, Join(docs_dir, "autoapi"), ".rst"))
             \cup Range(Glob(t, Join(docs_dir, "api"), ".rst"))
    ELSE Range(Glob(t, docs_dir, ".rst"))

\* the priority a resolver gives to a file
PriorityOf(path, function) ==
    IF function = "add_noindex_directives"
    THEN FilePriority(path, priorities(docs_dir),
                      IF StartsWith(path, Join(docs_dir, "api/")) THEN 100 ELSE 50)
    ELSE FilePriority(path, priority_dirs, 50)

\* the directives that describe objects in the scanned files of t: the file,
\* the line, the object, and whether the directive carries ':noindex:', in
\* its line or as the option below it
Descriptions(t, function) ==
    LET lines(path) == Split(FileAt(t, path).content, "\n")
        marked(l, i) == \/ Contains(l[i], ":noindex:")
                        \/ (i < Len(l) /\ Strip(l[i + 1]) = ":noindex:")
        of(path, l)  == {[file |-> path, line |-> i,
                          object |-> BeforeCall(PyDirective(l[i]).obj_name),
                          noindex |-> marked(l, i)] :
                             i \in {k \in 1..Len(l) : PyDirective(l[k]).match}}
    IN  UNION {of(path, lines(path)) : path \in {p \in Scanned(t, function) : CanRead(t, p)}}

\* C26: a duplicate resolver adds ':noindex:' to all the directives of an
\* object but one. After a run over files in which no directive carried
\* ':noindex:', every object these files describe has exactly one directive
\* without ':noindex:', which no other directive of the object exceeds in
\* priority; so an object with a single directive is never given ':noindex:'.
C26_OneStaysUnmarked ==
    resolver.pc = "resolved" =>
        LET before == Descriptions(resolver.before, resolver.function)
            after  == Descriptions(tree, resolver.function)
            open(object) == {d \in after : d.object = object /\ ~ d.noindex}
        IN  (\A d \in before : ~ d.noindex) =>
                \A object \in {d.object : d \in before} :
                    /\ Cardinality(open(object)) = 1
                    /\ \A d \in open(object) :
                           \A e \in {x \in after : x.object = object} :
                               PriorityOf(e.file, resolver.function)
                                   <= PriorityOf(d.file, resolver.function)

(***************************************************************************)
(* test_command.py: TestCommand, with tests/ast_scanner.py:                *)
(* CodeEntityAnalyzer and source_discovery.py: discover_code_structures    *)
(***************************************************************************)
\* the matches of keyword\s+([A-Za-z0-9_]+)(?:\(.*?\))?: in s from position i
\* on: the position of the match and the name
RECURSIVE StructureMatches(_, _, _)
StructureMatches(s, keyword, i) ==
    LET closes(b) == {c \in (b + 1)..(LineEnd(s, b) - 1) :
                         Ch(s, c) = ")" /\ StartsAt(s, c + 1, ":")}
        end(b)    == IF StartsAt(s, b, ":") THEN b + 1
                     ELSE IF StartsAt(s, b, "(") /\ closes(b) # {}
                     THEN FirstOf(closes(b)) + 2
                     ELSE 0
        found(p, a, b, e) ==
            IF a > p + Len(keyword) /\ b > a /\ e # 0
            THEN <<[pos |-> p, name |-> SubSeq(s, a, b - 1)]>>
                     \o StructureMatches(s, keyword, e)
            ELSE StructureMatches(s, keyword, p + 1)
        named(p, a) == The({found(p, a, b, end(b)) : b \in {SkipChars(s, a, WordChars)}})
        next(p) == IF p = 0 THEN <<>>
                   ELSE The({named(p, a) : a \in {SkipSpace(s, p + Len(keyword))}})
    IN  The({next(p) : p \in {FindFrom(s, keyword, i)}})

\* bool(re.search(r'"""(.*?)"""', content[pos:pos+500], re.DOTALL))
HasDocs(content, pos) ==
    Count(SubSeq(content, pos, Min(Len(content), pos + 499)), "\"\"\"") >= 2

\* the items discover_code_structures finds in one file: the module, the
\* classes, then the functions that are not private
FileStructures(src_dir, path, content) ==
    LET module_name ==
            ReplaceAll(Replace(RelativeTo(path, Dirname(src_dir)), "/", "."), ".py", "")
        item(type, m) == [name |-> m.name, type |-> type, file |-> path,
                          module |-> module_name, doc_ready |-> HasDocs(content, m.pos)]
        public(m) == ~ (StartsWith(m.name, "_")
                        /\ ~ (StartsWith(m.name, "__") /\ EndsWith(m.name, "__")))
        classes   == StructureMatches(content, "class", 1)
        functions == SelectSeq(StructureMatches(content, "def", 1), public)
    IN  <<[name |-> module_name, type |-> "module", file |-> path,
           module |-> module_name, doc_ready |-> TRUE]>>
            \o [i \in 1..Len(classes) |-> item("class", classes[i])]
            \o [i \in 1..Len(functions) |-> item("function", functions[i])]

\* the loop of discover_code_structures over the python files from i on
RECURSIVE CodeStructures(_, _, _, _)
CodeStructures(t, src_dir, paths, i) ==
    IF i > Len(paths) THEN <<>>
    ELSE (IF \/ Name(paths[i]) = "__init__.py"
             \/ Contains(Lower(Name(paths[i])), "test")
             \/ ~ CanRead(t, paths[i])
          THEN <<>>
          ELSE FileStructures(src_dir, paths[i], FileAt(t, paths[i]).content))
             \o CodeStructures(t, src_dir, paths, i + 1)

\* discover_code_structures(src_dir), for a src_dir that is given. The module
\* item has no key 'module' in the code; here it holds the name of the item
discover_code_structures(t, src_dir) ==
    IF ~ Exists(t, src_dir) THEN <<>>
    ELSE CodeStructures(t, src_dir, Glob(t, src_dir, ".py"), 1)

\* CodeEntityAnalyzer(repo_root)
CodeEntityAnalyzer(root) ==
    [repo_root |-> root, src_dir |-> Join(root, "src"), tests_dir |-> Join(root, "tests"),
     discovered_items |-> <<>>, test_functions |-> {}, module_structure |-> <<>>]

\* the items of discover_all_structures: the raw items with their module
\* path; the keys read from the syntax tree (parameters, has_docstring,
\* return_type, complexity) take no part in the stubs and are left out
EnrichedItems(self, t) ==
    LET raw_items == discover_code_structures(t, self.src_dir)
        module_path(file) ==
            Replace(RelativeTo(WithSuffix(file, ""), self.src_dir), "/", ".")
    IN  [i \in 1..Len(raw_items) |->
            [name |-> raw_items[i].name, type |-> raw_items[i].type,
             file |-> raw_items[i].file, module |-> raw_items[i].module,
             doc_ready |-> raw_items[i].doc_ready,
             module_path |-> module_path(raw_items[i].file)]]

discover_all_structures(self, t) ==
    The({[self EXCEPT !.discovered_items = items] : items \in {EnrichedItems(self, t)}})

\* whether _analyze_coverage takes the item as tested
is_tested(self, item) ==
    LET module_parts == Split(item.module_path, ".")
        item_name    == Lower(item.name)
        test_patterns ==
            {"test_" \o item_name,
             "test_" \o module_parts[Len(module_parts)] \o "_" \o item_name}
                \cup (IF item.type = "class" THEN {"test_" \o item_name \o "_"} ELSE {})
    IN  \E pattern \in test_patterns : \E fn \in self.test_functions : Contains(fn, pattern)

\* items.sort(key=lambda x: x["name"]); the sort is stable
RECURSIVE SortByName(_)
SortByName(items) ==
    IF items = <<>> THEN <<>>
    ELSE LET least == CHOOSE i \in 1..Len(items) :
                          /\ \A j \in 1..Len(items) : ~ StrLess(items[j].name, items[i].name)
                          /\ \A j \in 1..(i - 1) : items[j].name # items[i].name
         IN  <<items[least]>>
                 \o SortByName([k \in 1..(Len(items) - 1) |->
                                   items[IF k < least THEN k ELSE k + 1]])

\* the name of the group of an item in by_module of _analyze_coverage
GroupOf(item) ==
    LET i == RFind(item.module_path, ".", Len(item.module_path))
    IN  IF i = 0 THEN "root" ELSE SubSeq(item.module_path, 1, i - 1)

\* by_module of _analyze_coverage for the items from i on
RECURSIVE ByModule(_, _, _, _)
ByModule(self, items, i, by_module) ==
    IF i > Len(items) THEN by_module
    ELSE LET name  == GroupOf(items[i])
             group == IF HasKey(by_module, name) THEN DictGet(by_module, name)
                      ELSE [tested |-> <<>>, untested |-> <<>>]
         IN  ByModule(self, items, i + 1,
                      DictSet(by_module, name,
                              IF is_tested(self, items[i])
                              THEN [group EXCEPT !.tested = Append(@, items[i])]
                              ELSE [group EXCEPT !.untested = Append(@, items[i])]))

\* _analyze_coverage(): the analyzer, whose module_structure it sets, and the
\* tested and untested items
analyze_coverage(self) ==
    LET tested(item)   == is_tested(self, item)
        untested(item) == ~ is_tested(self, item)
    IN  [self |-> [self EXCEPT !.module_structure =
                       ByModule(self, self.discovered_items, 1, <<>>)],
         tested |-> SortByName(SelectSeq(self.discovered_items, tested)),
         untested |-> SortByName(SelectSeq(self.discovered_items, untested))]

\* re.findall(r'def\s+(test_[^\s\(]+)', content) from position i on
RECURSIVE TestFunctions(_, _)
TestFunctions(s, i) ==
    LET found(p, a, b) ==
            IF a > p + 3 /\ StartsAt(s, a, "test_") /\ b > a + 5
            THEN <<SubSeq(s, a, b - 1)>> \o TestFunctions(s, b)
            ELSE TestFunctions(s, p + 1)
        named(p, a) ==
            The({found(p, a, b) :
                     b \in {SkipUntil(s, a + 5, {" ", "\n", "\t", "\r", "("})}})
        next(p) == IF p = 0 THEN <<>>
                   ELSE The({named(p, a) : a \in {SkipSpace(s, p + 3)}})
    IN  The({next(p) : p \in {FindFrom(s, "def", i)}})

\* tests_dir.glob("test_*.py")
TestFiles(t, dir) ==
    LET match(f) == /\ Dirname(f.path) = dir
                    /\ StartsWith(Name(f.path), "test_")
                    /\ EndsWith(Name(f.path), ".py")
    IN  PathsOf(SelectSeq(t, match))

\* the test files up to the first one that cannot be read
RECURSIVE ReadablePrefix(_, _, _)
ReadablePrefix(t, paths, i) ==
    IF i > Len(paths) \/ ~ CanRead(t, paths[i]) THEN <<>>
    ELSE <<paths[i]>> \o ReadablePrefix(t, paths, i + 1)

\* analyze_tests(): the analyzer and the counts it returns; a test file that
\* cannot be read raises, after the files before it have been read
analyze_tests(self, t) ==
    LET paths == TestFiles(t, self.tests_dir)
        functions(path) == Range(TestFunctions(FileAt(t, path).content, 1))
        found == [self EXCEPT !.test_functions =
                     {Lower(fn) : fn \in UNION {functions(p) :
                                                   p \in Range(ReadablePrefix(t, paths, 1))}}]
        done(c) == [raised |-> FALSE, self |-> c.self,
                    total_items |-> Len(self.discovered_items),
                    tested_items |-> Len(c.tested), untested_items |-> Len(c.untested)]
    IN  IF \E p \in Range(paths) : ~ CanRead(t, p)
        THEN [raised |-> TRUE, self |-> found,
              total_items |-> 0, tested_items |-> 0, untested_items |-> 0]
        ELSE The({done(c) : c \in {analyze_coverage(x) : x \in {found}}})

\* open(path, "w") and write: the file is made when there is none
CreateText(t, path, content) ==
    IF IsFile(t, path)
    THEN [i \in 1..Len(t) |-> IF t[i].path = path THEN File(path, content) ELSE t[i]]
    ELSE Append(t, File(path, content))

\* what generate_test_stubs writes for one item
StubFor(item) ==
    IF item.type = "class"
    THEN "class Test" \o item.name \o "(unittest.TestCase):\n"
             \o "    \"\"\"Tests for " \o item.name \o " class.\"\"\"\n\n"
             \o "    def setUp(self):\n"
             \o "        # Setup code here\n"
             \o "        pass\n\n"
             \o "    def test_" \o Lower(item.name) \o "_initialization(self):\n"
             \o "        # Test " \o item.name \o " initialization\n"
             \o "        self.assertTrue(True)  # Replace with actual test\n\n"
    ELSE "def test_" \o Lower(item.name) \o "():\n"
             \o "    \"\"\"Test " \o item.name \o " function.\"\"\"\n"
             \o "    # Test implementation here\n"
             \o "    assert True  # Replace with actual test\n\n"

\* the stubs of the items, one after the other
RECURSIVE StubsFor(_)
StubsFor(items) ==
    IF items = <<>> THEN "" ELSE StubFor(items[1]) \o StubsFor(Tail(items))

\* by_module of generate_test_stubs: the untested items under the first part
\* of their module path
RECURSIVE StubModules(_, _, _)
StubModules(untested, i, by_module) ==
    IF i > Len(untested) THEN by_module
    ELSE StubModules(untested, i + 1,
                     Extend(by_module, Split(untested[i].module_path, ".")[1],
                            <<untested[i]>>))

\* the loop of generate_test_stubs over by_module from i on: the tree and
\* the files written
RECURSIVE WriteStubs(_, _, _, _, _)
WriteStubs(t, output_dir, by_module, i, generated_files) ==
    IF i > Len(by_module) THEN [tree |-> t, generated_files |-> generated_files]
    ELSE LET stub_file == Join(output_dir, "test_" \o by_module[i].key \o "_stubs.py")
         IN  WriteStubs(CreateText(t, stub_file,
                                   "import unittest\nimport pytest\nimport "
                                       \o by_module[i].key \o "\n\n"
                                       \o StubsFor(by_module[i].value)),
                        output_dir, by_module, i + 1, Append(generated_files, stub_file))

\* generate_test_stubs(), into the tests directory, which TestCommand has
\* made: the analyzer, the tree and the information it returns;
\* covered_items holds the items that the code counts
generate_test_stubs(self, t) ==
    LET written(c, by_module) ==
            The({[self |-> c.self, tree |-> w.tree,
                  generated_files |-> w.generated_files,
                  stub_count |-> Len(w.generated_files),
                  covered_items |-> Values(by_module)] :
                     w \in {WriteStubs(t, self.tests_dir, by_module, 1, <<>>)}})
        grouped(c) == The({written(c, by_module) :
                               by_module \in {StubModules(c.untested, 1, <<>>)}})
    IN  The({grouped(c) :
                 c \in {analyze_coverage(IF self.discovered_items = <<>>
                                         THEN discover_all_structures(self, t)
                                         ELSE self)}})

\* generate_stubs(module) of a TestCommand whose analyzer is there; module
\* is "" for None: the analyzer, the tree and what generate_test_stubs returned
generate_stubs(analyzer_, t, module) ==
    LET wanted(item) == StartsWith(item.module_path, module)
        restored(original_items, stubs_info) ==
            [stubs_info EXCEPT !.self.discovered_items = original_items]
        filtered(found) ==
            The({restored(found.discovered_items, stubs_info) :
                     stubs_info \in {generate_test_stubs(
                                         [found EXCEPT !.discovered_items =
                                                           SelectSeq(@, wanted)], t)}})
    IN  IF module # ""
        THEN The({filtered(found) : found \in {discover_all_structures(analyzer_, t)}})
        ELSE generate_test_stubs(analyzer_, t)

\* python files of a repository, in traversal order
CodePool ==
    <<File("/r/src/pkg/core.py",
           "class Engine(Base):\n    def run(self):\n        pass\n\ndef helper():\n    return 1\n"),
      File("/r/src/pkg/util.py",
           "def parse(x):\n    \"\"\"Doc.\"\"\"\n    return x\n\ndef _private():\n    pass\n"),
      File("/r/src/tools/cli.py", "def main():\n    pass\n"),
      File("/r/src/app.py", "class App:\n    pass\n"),
      File("/r/src/pkg/__init__.py", "def init(): pass\n"),
      File("/r/src/pkg/test_core.py", "def test_x(): pass\n"),
      Unreadable("/r/src/pkg/broken.py"),
      File("/r/tests/test_core.py",
           "def test_run():\n    pass\ndef test_Engine_init():\n    pass\n"),
      File("/r/tests/test_cli.py", "def  test_main(): pass\n"),
      Unreadable("/r/tests/test_locked.py")>>

CodeTrees ==
    {PickFrom(CodePool, S) :
        S \in {X \in SUBSET (1..Len(CodePool)) : Cardinality(X) <= MaxFiles}}

\* the modules generate_stubs is asked for; "" stands for None
Modules == {"", "pkg", "pkg.core", "app", "docs"}

CommandInit ==
    /\ DiscoveryIdle
    /\ tree \in CodeTrees
    /\ workflow = NotStarted
    /\ analyzer = NotStarted
    /\ fixer = NotStarted
    /\ manager = NotStarted
    /\ resolver = NotStarted
    /\ command = NotStarted

\* command = TestCommand(repo_root); the analyzer is there when ast_scanner
\* can be imported
NewTestCommand ==
    /\ command.pc = "idle"
    /\ \E imported \in BOOLEAN :
           command' = [pc |-> "new", imported |-> imported,
                       analyzer |-> CodeEntityAnalyzer(repo_root), runs |-> 0]
    /\ UNCHANGED <<discovery, workflow, analyzer, fixer, manager, resolver>>

\* command.analyzer.discover_all_structures()
DiscoverAllStructures ==
    /\ command.pc # "idle"
    /\ command.imported
    /\ command' = [pc |-> "discovered", imported |-> TRUE,
                   analyzer |-> discover_all_structures(command.analyzer, tree),
                   runs |-> command.runs]
    /\ UNCHANGED <<discovery, workflow, analyzer, fixer, manager, resolver>>

\* command.analyzer.analyze_tests()
AnalyzeTests ==
    /\ command.pc # "idle"
    /\ command.imported
    /\ \E r \in {analyze_tests(command.analyzer, tree)} :
           command' = [pc |-> IF r.raised THEN "raised" ELSE "analyzed", imported |-> TRUE,
                       analyzer |-> r.self, runs |-> command.runs,
                       tested_items |-> r.tested_items,
                       untested_items |-> r.untested_items]
    /\ UNCHANGED <<discovery, workflow, analyzer, fixer, manager, resolver>>

\* command.generate_stubs(module); without analyzer it raises ImportError
GenerateStubs ==
    /\ command.pc # "idle"
    /\ command.runs < MaxRuns
    /\ \E module \in Modules :
           IF ~ command.imported
           THEN /\ command' = [pc |-> "raised", imported |-> FALSE,
                               analyzer |-> command.analyzer, runs |-> command.runs + 1]
                /\ tree' = tree
           ELSE \E r \in {generate_stubs(command.analyzer, tree, module)} :
                    /\ tree' = r.tree
                    /\ command' = [pc |-> "stubbed", imported |-> TRUE,
                                   analyzer |-> r.self, runs |-> command.runs + 1,
                                   module |-> module, before |-> tree,
                                   generated_files |-> r.generated_files,
                                   covered_items |-> r.covered_items]
    /\ UNCHANGED <<repo_root, docs_dir, doc_structure, documents, orphaned_documents,
                   tracked_documents, file_content_cache, toc, analysed, metadata, pc, last,
                   workflow, analyzer, fixer, manager, resolver>>

CommandNext == NewTestCommand \/ DiscoverAllStructures \/ AnalyzeTests \/ GenerateStubs

CommandSpec == CommandInit /\ [][CommandNext]_vars

\* C30: generate_stubs(module) writes stubs only for untested items whose
\* module path starts with module, writes no stub file at all when no
\* discovered item matches, and leaves in analyzer.discovered_items the full
\* list of the discovered items.
C30_StubsOnlyForModule ==
    (command.pc = "stubbed" /\ command.module # "") =>
        LET discovered == EnrichedItems(command.analyzer, command.before)
            wanted(item) == StartsWith(item.module_path, command.module)
        IN  /\ \A item \in Range(command.covered_items) :
                   wanted(item) /\ ~ is_tested(command.analyzer, item)
            /\ (SelectSeq(discovered, wanted) = <<>> =>
                    command.generated_files = <<>> /\ tree = command.before)
            /\ command.analyzer.discovered_items = discovered

====
